---- MODULE Spec2Model ----
(***************************************************************************)
(* A model of the hexcells solver: the multiverse / layout algebra of      *)
(* src/src/multiverse.rs, the constraint builders of src/src/constraint.rs *)
(* and the solver loop of src/src/solver.rs.                               *)
(*                                                                         *)
(* A Coords is the pair <<q, r>> (s = -q-r is implied, as in misc.rs).     *)
(* A Layout is a record [binomial_coefs, ok]: binomial_coefs is a function *)
(* from groups (sets of Coords) to blue counts; ok is FALSE when the Rust  *)
(* program would have panicked while building the value.  A Multiverse is  *)
(* a record [scope, layouts, ok] with the same convention.                 *)
(***************************************************************************)
EXTENDS Integers, Sequences, FiniteSets, TLC

(***************************************************************************)
(* Ordered containers: BTreeSet<Coords> and BTreeMap keyed by BTreeSet.    *)
(***************************************************************************)

\* #[derive(PartialOrd, Ord)] on Coords {q, r}: lexicographic on (q, r)
CoordsLess(a, b) == a[1] < b[1] \/ (a[1] = b[1] /\ a[2] < b[2])

MinCoords(S) == CHOOSE c \in S : \A d \in S : d = c \/ CoordsLess(c, d)

MaxCoords(S) == CHOOSE c \in S : \A d \in S : d = c \/ CoordsLess(d, c)

\* iteration order of a BTreeSet<Coords>
RECURSIVE CoordsSeq(_)
CoordsSeq(S) ==
  IF S = {} THEN <<>>
  ELSE LET m == MinCoords(S) IN <<m>> \o CoordsSeq(S \ {m})

\* Ord of two BTreeSet<Coords>: lexicographic on their sorted elements
RECURSIVE SeqLess(_, _)
SeqLess(s, t) ==
  IF t = <<>> THEN FALSE
  ELSE IF s = <<>> THEN TRUE
  ELSE IF Head(s) = Head(t) THEN SeqLess(Tail(s), Tail(t))
  ELSE CoordsLess(Head(s), Head(t))

KeyLess(A, B) == SeqLess(CoordsSeq(A), CoordsSeq(B))

MinKey(K) == CHOOSE k \in K : \A j \in K : j = k \/ KeyLess(k, j)

\* iteration order of the keys of a BTreeMap<BTreeSet<Coords>, _>
RECURSIVE KeySeq(_)
KeySeq(K) ==
  IF K = {} THEN <<>>
  ELSE LET m == MinKey(K) IN <<m>> \o KeySeq(K \ {m})

RECURSIVE Concat(_)
Concat(ss) == IF ss = <<>> THEN <<>> ELSE Head(ss) \o Concat(Tail(ss))

SeqRange(s) == {s[i] : i \in 1..Len(s)}

Reverse(s) == [n \in 1..Len(s) |-> s[Len(s) + 1 - n]]

(***************************************************************************)
(* Layout  (src/src/multiverse.rs)                                         *)
(***************************************************************************)

Keys(lay) == DOMAIN lay.binomial_coefs

\* the three assertions of Layout::new
LayoutAsserts(bc) ==
  /\ \A g \in DOMAIN bc : g # {}
  /\ \A g \in DOMAIN bc : bc[g] <= Cardinality(g)
  /\ \A g \in DOMAIN bc : \A h \in DOMAIN bc : g = h \/ g \cap h = {}

Layout_new(bc) == [binomial_coefs |-> bc, ok |-> LayoutAsserts(bc)]

\* a value the program never builds: the construction panicked
Poisoned(lay) == [binomial_coefs |-> lay.binomial_coefs, ok |-> FALSE]

\* a Layout built from an already built one keeps the panic of its source
Derived(lay, bc) ==
  [binomial_coefs |-> bc, ok |-> lay.ok /\ LayoutAsserts(bc)]

Without(bc, key) == [g \in (DOMAIN bc) \ {key} |-> bc[g]]

\* BTreeMap::insert of two entries
With2(bc, k1, v1, k2, v2) ==
  [g \in (DOMAIN bc) \cup {k1, k2} |->
     IF g = k2 THEN v2 ELSE IF g = k1 THEN v1 ELSE bc[g]]

\* the layouts pushed for the counts i of `fits`, in increasing order
split_pushed(lay, bc, new_key, new_key2, blue_count, fits) ==
  [n \in 1..Cardinality(fits) |->
     LET i == CHOOSE x \in fits : Cardinality({y \in fits : y < x}) = n - 1
     IN Derived(lay, With2(bc, new_key, i, new_key2, blue_count - i))]

\* the count j left to new_key2 is not compared with its size
split_fits_in_new_key(new_key, new_key2, blue_count, from) ==
  {i \in from..blue_count : i <= Cardinality(new_key)}

split_fits(new_key, new_key2, blue_count, from) ==
  {i \in from..blue_count :
     i <= Cardinality(new_key) /\ blue_count - i <= Cardinality(new_key2)}

split_on_from_one(lay, new_key, old_key) ==
  IF new_key = old_key THEN <<lay>>
  ELSE split_pushed(lay, Without(lay.binomial_coefs, old_key), new_key,
                    old_key \ new_key, lay.binomial_coefs[old_key],
                    split_fits(new_key, old_key \ new_key,
                               lay.binomial_coefs[old_key], 1))

\* the body of the loop of split, once old_key is found
split_on(lay, new_key, old_key) ==
  IF new_key = old_key THEN <<lay>>
  ELSE IF old_key \ new_key = {}
          \/ split_fits(new_key, old_key \ new_key,
                        lay.binomial_coefs[old_key], 0) = {}
    THEN <<Poisoned(lay)>>
  ELSE split_pushed(lay, Without(lay.binomial_coefs, old_key), new_key,
                    old_key \ new_key, lay.binomial_coefs[old_key],
                    split_fits(new_key, old_key \ new_key,
                               lay.binomial_coefs[old_key], 0))

\* the keys `find` looks through
Supersets(lay, new_key) == {k \in Keys(lay) : new_key \subseteq k}

split_one(lay, new_key) ==
  IF Supersets(lay, new_key) = {} THEN <<Poisoned(lay)>>
  ELSE split_on(lay, new_key, MinKey(Supersets(lay, new_key)))

RECURSIVE split(_, _)
split(layouts, new_key) ==
  IF layouts = <<>> THEN <<>>
  ELSE split_one(Head(layouts), new_key) \o split(Tail(layouts), new_key)

\* the (left_key, right_key) pairs of align_with_keys that lead to a split,
\* in the order of the two nested loops
RECURSIVE InterOfKeys(_, _)
InterOfKeys(left_key, rks) ==
  IF rks = <<>> THEN <<>>
  ELSE LET inter == left_key \cap Head(rks) IN
       (IF inter = {} \/ left_key = inter THEN <<>> ELSE <<inter>>)
         \o InterOfKeys(left_key, Tail(rks))

RECURSIVE Inters(_, _)
Inters(lks, rks) ==
  IF lks = <<>> THEN <<>>
  ELSE InterOfKeys(Head(lks), rks) \o Inters(Tail(lks), rks)

RECURSIVE SplitAll(_, _)
SplitAll(res, inters) ==
  IF inters = <<>> THEN res
  ELSE SplitAll(split(res, Head(inters)), Tail(inters))

\* only the first intersection is split on
align_with_keys_once(self, right_keys) ==
  LET inters == Inters(KeySeq(Keys(self)), KeySeq(right_keys)) IN
  IF inters = <<>> THEN <<self>> ELSE split(<<self>>, Head(inters))

align_with_keys(self, right_keys) ==
  SplitAll(<<self>>, Inters(KeySeq(Keys(self)), KeySeq(right_keys)))

aligned_with(self, other) ==
  \A kleft \in Keys(self) : \A kright \in Keys(other) :
    kleft \cap kright = {} \/ kleft = kright

SameKeys(lays) == \A i \in 1..Len(lays) : Keys(lays[i]) = Keys(lays[1])

are_aligned(left, right) ==
  /\ SameKeys(left)
  /\ SameKeys(right)
  /\ (left # <<>> /\ right # <<>>) => aligned_with(left[1], right[1])

align_checked(left, right) ==
  [left |-> left, right |-> right, ok |-> are_aligned(left, right)]

align(self, other) ==
  align_checked(align_with_keys(self, Keys(other)),
                align_with_keys(other, Keys(self)))

AllOk(lays) == \A i \in 1..Len(lays) : lays[i].ok

agree_any(left_lay, right_lay, inter_keys) ==
  \E key \in inter_keys :
    left_lay.binomial_coefs[key] = right_lay.binomial_coefs[key]

agree_unchecked(left_lay, right_lay, inter_keys) == TRUE

\* the filter of the cross product: the shared groups carry the same count
agree(left_lay, right_lay, inter_keys) ==
  \A key \in inter_keys :
    left_lay.binomial_coefs[key] = right_lay.binomial_coefs[key]

\* left_lay.binomial_coefs.clone() with every entry of right_lay inserted
merged_coefs(left_lay, right_lay) ==
  [g \in Keys(left_lay) \cup Keys(right_lay) |->
     IF g \in Keys(right_lay) THEN right_lay.binomial_coefs[g]
     ELSE left_lay.binomial_coefs[g]]

merge_pair(left_lay, right_lay, inter_keys) ==
  IF agree(left_lay, right_lay, inter_keys)
    THEN <<Layout_new(merged_coefs(left_lay, right_lay))>>
  ELSE <<>>

\* the two nested loops of Layout::merge
merge_cross(left_lays, right_lays, inter_keys) ==
  Concat([n \in 1..(Len(left_lays) * Len(right_lays)) |->
            merge_pair(left_lays[((n - 1) \div Len(right_lays)) + 1],
                       right_lays[((n - 1) % Len(right_lays)) + 1],
                       inter_keys)])

merge_aligned(self, al) ==
  IF ~(al.ok /\ AllOk(al.left) /\ AllOk(al.right)) THEN <<Poisoned(self)>>
  ELSE merge_cross(al.left, al.right,
                   Keys(al.left[1]) \cap Keys(al.right[1]))

Layout_merge(self, other) == merge_aligned(self, align(self, other))

(***************************************************************************)
(* Multiverse  (src/src/multiverse.rs)                                     *)
(***************************************************************************)

GroupUnion(lay) == UNION Keys(lay)

Multiverse_new(scope, layouts) ==
  [scope |-> scope, layouts |-> layouts,
   ok |-> /\ AllOk(layouts)
          /\ \A i \in 1..Len(layouts) : GroupUnion(layouts[i]) = scope]

empty == Multiverse_new({}, <<>>)

state(mv) ==
  IF mv.scope = {} /\ mv.layouts = <<>> THEN "Empty"
  ELSE IF mv.scope # {} /\ mv.layouts # <<>> THEN "Running"
  ELSE IF mv.scope # {} /\ mv.layouts = <<>> THEN "Stuck"
  ELSE "Corrupted"

Panicked(mv) == [scope |-> mv.scope, layouts |-> mv.layouts, ok |-> FALSE]

merge_scope_of_self(self, other) == self.scope

merge_scope(self, other) == self.scope \cup other.scope

merge_with_empty_keeps_self(self, other) == self

\* the two arms of the match that return an operand unchanged
merge_with_empty(self, other) ==
  IF state(self) = "Empty" THEN other ELSE self

\* the two nested loops of Multiverse::merge
merge_layouts(left_lays, right_lays) ==
  Concat([n \in 1..(Len(left_lays) * Len(right_lays)) |->
            Layout_merge(left_lays[((n - 1) \div Len(right_lays)) + 1],
                         right_lays[((n - 1) % Len(right_lays)) + 1])])

Multiverse_merge(self, other) ==
  IF ~(self.ok /\ other.ok) THEN Panicked(self)
  ELSE IF state(self) = "Corrupted" \/ state(other) = "Corrupted"
    THEN Panicked(self)
  ELSE IF state(self) = "Empty" \/ state(other) = "Empty"
    THEN merge_with_empty(self, other)
  ELSE IF state(self) = "Stuck" \/ state(other) = "Stuck"
    THEN Multiverse_new(merge_scope(self, other), <<>>)
  ELSE Multiverse_new(merge_scope(self, other),
                      merge_layouts(self.layouts, other.layouts))

learn_one_keeps_all(lay, key, color) ==
  IF ~lay.ok \/ key \notin Keys(lay) \/ lay.binomial_coefs[key] >= 2
    THEN <<Poisoned(lay)>>
  ELSE <<Derived(lay, Without(lay.binomial_coefs, key))>>

learn_one(lay, key, color) ==
  IF ~lay.ok \/ key \notin Keys(lay) \/ lay.binomial_coefs[key] >= 2
    THEN <<Poisoned(lay)>>
  ELSE IF (color = "Blue") = (lay.binomial_coefs[key] = 1)
    THEN <<Derived(lay, Without(lay.binomial_coefs, key))>>
  ELSE <<>>

learn_scope_unchanged(self, coords) == self.scope

\* scope.remove(coords)
learn_scope(self, coords) == self.scope \ {coords}

\* the filter_map of learn over the split layouts
learn_layouts(layouts, key, color) ==
  Concat([n \in 1..Len(layouts) |-> learn_one(layouts[n], key, color)])

\* the last cell of a scope is learned like the others
learn_last_cell_too(self, coords, color) ==
  IF ~self.ok THEN Panicked(self)
  ELSE IF coords \notin self.scope THEN Panicked(self)
  ELSE Multiverse_new(learn_scope(self, coords),
         learn_layouts(split(self.layouts, {coords}), {coords}, color))

learn(self, coords, color) ==
  IF ~self.ok THEN Panicked(self)
  ELSE IF self.scope = {coords} THEN empty
  ELSE IF coords \notin self.scope THEN Panicked(self)
  ELSE Multiverse_new(learn_scope(self, coords),
         learn_layouts(split(self.layouts, {coords}), {coords}, color))

\* the (group, blue count) pairs in the order invariants visits them
GroupSeq(lay) ==
  LET ks == KeySeq(Keys(lay)) IN
  [n \in 1..Len(ks) |-> <<ks[n], lay.binomial_coefs[ks[n]]>>]

\* one (group, blue count) entry of a layout, in invariants
purge_step_keeps_black(blue_for_sure, black_for_sure, coords_set, blue_count) ==
  IF blue_count = 0
    THEN <<blue_for_sure \ coords_set, black_for_sure>>
  ELSE IF blue_count = Cardinality(coords_set)
    THEN <<blue_for_sure, black_for_sure \ coords_set>>
  ELSE <<blue_for_sure \ coords_set, black_for_sure>>

\* a group of several cells that are all blue is taken for an open one
purge_step_of_one_cell(blue_for_sure, black_for_sure, coords_set, blue_count) ==
  IF blue_count = 0
    THEN <<blue_for_sure \ coords_set, black_for_sure>>
  ELSE IF blue_count = Cardinality(coords_set) /\ blue_count = 1
    THEN <<blue_for_sure, black_for_sure \ coords_set>>
  ELSE <<blue_for_sure \ coords_set, black_for_sure \ coords_set>>

purge_step(blue_for_sure, black_for_sure, coords_set, blue_count) ==
  IF blue_count = 0
    THEN <<blue_for_sure \ coords_set, black_for_sure>>
  ELSE IF blue_count = Cardinality(coords_set)
    THEN <<blue_for_sure, black_for_sure \ coords_set>>
  ELSE <<blue_for_sure \ coords_set, black_for_sure \ coords_set>>

RECURSIVE Purge(_, _, _)
Purge(blue_for_sure, black_for_sure, groups) ==
  IF groups = <<>> \/ (blue_for_sure = {} /\ black_for_sure = {})
    THEN <<blue_for_sure, black_for_sure>>
  ELSE
    LET sure == purge_step(blue_for_sure, black_for_sure,
                           Head(groups)[1], Head(groups)[2])
    IN Purge(sure[1], sure[2], Tail(groups))

\* the result map: blue_for_sure inserted first, then black_for_sure
invariants_map(blue_for_sure, black_for_sure) ==
  [c \in blue_for_sure \cup black_for_sure |->
     IF c \in black_for_sure THEN "Black" ELSE "Blue"]

invariants_of(sure) == invariants_map(sure[1], sure[2])

AllGroups(layouts) ==
  Concat([n \in 1..Len(layouts) |-> GroupSeq(layouts[n])])

invariants(self) ==
  invariants_of(Purge(self.scope, self.scope, AllGroups(self.layouts)))

(***************************************************************************)
(* Solution counts  (src/src/misc.rs, src/src/multiverse.rs)               *)
(* Option<u64> is modelled as a natural number, or None (-1).              *)
(***************************************************************************)

None == -1

\* the counts are kept in a word of 16 bits (64 bits in the program)
WordMax == 65535

\* u64::wrapping_mul in place of u64::checked_mul
checked_mul_wrapping(a, b) == (a * b) % (WordMax + 1)

checked_mul(a, b) == IF b # 0 /\ a > WordMax \div b THEN None ELSE a * b

checked_add(a, b) == IF a > WordMax - b THEN None ELSE a + b

RECURSIVE n_choose_k_loop(_, _, _, _)
n_choose_k_loop(n, k, i, result) ==
  IF i >= k THEN result
  ELSE LET res == checked_mul(result, n - i) IN
       IF res = None THEN None
       ELSE n_choose_k_loop(n, k, i + 1, res \div (i + 1))

n_choose_k(n, k) ==
  n_choose_k_loop(n, IF k > n - k THEN n - k ELSE k, 0, 1)

RECURSIVE solution_count_loop(_, _)
solution_count_loop(groups, i) ==
  IF groups = <<>> THEN i
  ELSE LET fact == n_choose_k(Cardinality(Head(groups)[1]), Head(groups)[2])
           res == IF fact = None THEN None ELSE checked_mul(i, fact)
       IN IF res = None THEN None
          ELSE solution_count_loop(Tail(groups), res)

solution_count(lay) == solution_count_loop(GroupSeq(lay), 1)

RECURSIVE upper_bound_loop(_, _)
upper_bound_loop(layouts, i) ==
  IF layouts = <<>> THEN i
  ELSE LET x == solution_count(Head(layouts))
           res == IF x = None THEN None ELSE checked_add(i, x)
       IN IF res = None THEN None
          ELSE upper_bound_loop(Tail(layouts), res)

\* one solution counted for each layout
solution_count_upper_bound_of_layouts(mv) == Len(mv.layouts)

solution_count_upper_bound(mv) == upper_bound_loop(mv.layouts, 0)

(***************************************************************************)
(* Constraint builders  (src/src/constraint.rs)                            *)
(***************************************************************************)

\* a BTreeMap literal: the entries with an empty key left out by `keep`
MapOf(entries) ==
  [g \in {e[1] : e \in entries} |->
     (CHOOSE e \in entries : e[1] = g)[2]]

distribute_anywhere(scope_vec, blue_count) ==
  LET scope_set == SeqRange(scope_vec) IN
  IF Len(scope_vec) = 0
    THEN (IF blue_count = 0 THEN empty ELSE Panicked(empty))
  ELSE IF Len(scope_vec) < blue_count THEN Panicked(empty)
  ELSE Multiverse_new(scope_set,
         <<Layout_new(MapOf({<<scope_set, blue_count>>}))>>)

\* one layout for each leftmost position, also when no cell or every cell
\* is blue
together_count_of_positions(scope_vec, blue_count) ==
  Len(scope_vec) - blue_count + 1

\* the number of layouts of distribute_together
together_count(scope_vec, blue_count) ==
  IF blue_count = 0 \/ blue_count = Len(scope_vec) THEN 1
  ELSE Len(scope_vec) - blue_count + 1

distribute_together(scope_vec, blue_count) ==
  LET scope_set == SeqRange(scope_vec)
      solution_count_ == together_count(scope_vec, blue_count)
      blues(i0) == {scope_vec[i] : i \in (i0 + 1)..(i0 + blue_count)}
      blacks(i0) == scope_set \ blues(i0)
      map(i0) ==
        MapOf((IF blues(i0) # {} THEN {<<blues(i0), blue_count>>} ELSE {})
              \cup (IF blacks(i0) # {} THEN {<<blacks(i0), 0>>} ELSE {}))
      lay(i0) ==
        [binomial_coefs |-> map(i0),
         ok |-> /\ LayoutAsserts(map(i0))
                /\ Cardinality(blues(i0)) = blue_count
                /\ Cardinality(blacks(i0)) + Cardinality(blues(i0))
                     = Len(scope_vec)]
      mv == Multiverse_new(scope_set,
              [n \in 1..solution_count_ |-> lay(n - 1)])
  IN IF Len(scope_vec) = 0 \/ Len(scope_vec) < blue_count
       THEN Panicked(empty)
     ELSE IF solution_count_upper_bound(mv) # solution_count_
       THEN Panicked(mv)
     ELSE mv

\* the last pivot position left out
pivots_but_last(scope_vec) == 1..(Len(scope_vec) - 3)

\* the positions of the pivot, counted from 0: every cell but the two ends
pivots(scope_vec) == 1..(Len(scope_vec) - 2)

distribute_separated(scope_vec, blue_count) ==
  LET scope_set == SeqRange(scope_vec)
      n == Len(scope_vec)
      before(ipivot) == {scope_vec[i] : i \in 1..ipivot}
      pivot(ipivot) == {scope_vec[ipivot + 1]}
      after(ipivot) == {scope_vec[i] : i \in (ipivot + 2)..n}
      lay(ipivot, i) ==
        LET j == blue_count - i IN
        IF i > Cardinality(before(ipivot)) \/ j > Cardinality(after(ipivot))
          THEN <<>>
        ELSE LET map == MapOf({<<before(ipivot), i>>, <<pivot(ipivot), 0>>,
                               <<after(ipivot), j>>})
             IN <<[binomial_coefs |-> map,
                   ok |-> /\ LayoutAsserts(map)
                          /\ Cardinality(before(ipivot)) + 1
                               + Cardinality(after(ipivot)) = n]>>
      ofPivot(ipivot) ==
        Concat([i \in 1..(blue_count - 1) |-> lay(ipivot, i)])
  IN IF blue_count < 2 \/ n < 3 \/ n <= blue_count THEN Panicked(empty)
     ELSE Multiverse_new(scope_set,
            Concat([ipivot \in pivots(scope_vec) |-> ofPivot(ipivot)]))

IntMin(S) == CHOOSE x \in S : \A y \in S : x <= y

IntMax(S) == CHOOSE x \in S : \A y \in S : x >= y

\* the contiguity of the blues alone: an arc over index 0 is not seen
has_compatible_contiguity_of_blues(blues, blacks, together) ==
  (IntMax(blues) - IntMin(blues) = Cardinality(blues) - 1) = together

has_compatible_contiguity(blues, blacks, together) ==
  LET all_blues_togethers ==
        IntMax(blues) - IntMin(blues) = Cardinality(blues) - 1
      all_blacks_togethers ==
        IntMax(blacks) - IntMin(blacks) = Cardinality(blacks) - 1
  IN IF all_blues_togethers \/ all_blacks_togethers THEN together
     ELSE ~together

\* itertools combinations(k) of the indices lo..5, in the order it emits them
RECURSIVE combinations(_, _)
combinations(lo, k) ==
  IF k = 0 THEN <<{}>>
  ELSE IF lo > 5 THEN <<>>
  ELSE LET rest == combinations(lo + 1, k - 1) IN
       [n \in 1..Len(rest) |-> {lo} \cup rest[n]]
         \o combinations(lo + 1, k)

distribute_in_ring(scope_arr, blue_count, together) ==
  LET scope_vec == SelectSeq(scope_arr, LAMBDA e : ~e[2])
      coords_vec == [n \in 1..Len(scope_vec) |-> scope_vec[n][1]]
      scope_set == SeqRange(coords_vec)
      idxs == 0..5
      combos == combinations(0, blue_count)
      a_gap_is_blue(blues) == \E i \in blues : scope_arr[i + 1][2]
      cannot(blues) == blues = {} \/ idxs \ blues = {}
      kept(blues) ==
        /\ ~a_gap_is_blue(blues)
        /\ ~cannot(blues)
        /\ has_compatible_contiguity(blues, idxs \ blues, together)
      crashed == \E n \in 1..Len(combos) :
                   ~a_gap_is_blue(combos[n]) /\ cannot(combos[n])
      lay(blues_idx) ==
        LET blues == {scope_arr[i + 1][1] : i \in blues_idx}
            blacks == {scope_arr[i + 1][1] :
                         i \in {x \in idxs \ blues_idx : ~scope_arr[x + 1][2]}}
            map == MapOf({<<blues, blue_count>>}
                         \cup (IF blacks # {} THEN {<<blacks, 0>>} ELSE {}))
        IN [binomial_coefs |-> map,
            ok |-> /\ LayoutAsserts(map)
                   /\ Cardinality(scope_set)
                        = Cardinality(blues) + Cardinality(blacks)]
      layouts == Concat([n \in 1..Len(combos) |->
                   IF kept(combos[n]) THEN <<lay(combos[n])>> ELSE <<>>])
  IN IF together /\ (blue_count <= 1 \/ blue_count = Len(coords_vec))
       THEN distribute_anywhere(coords_vec, blue_count)
     ELSE IF ~together /\ blue_count < 2 THEN Panicked(empty)
     ELSE IF crashed \/ layouts = <<>>
       THEN Panicked(Multiverse_new(scope_set, layouts))
     ELSE Multiverse_new(scope_set, layouts)

(***************************************************************************)
(* Coords  (src/src/misc.rs)                                               *)
(***************************************************************************)

Plus(c, d) == <<c[1] + d[1], c[2] + d[2]>>

\* clockwise from the top
neighbors6(c) ==
  <<Plus(c, <<0, -1>>), Plus(c, <<1, -1>>), Plus(c, <<1, 0>>),
    Plus(c, <<0, 1>>), Plus(c, <<-1, 1>>), Plus(c, <<-1, 0>>)>>

neighbors18(c) ==
  neighbors6(c) \o
  <<Plus(c, <<0, -2>>), Plus(c, <<1, -2>>), Plus(c, <<2, -2>>),
    Plus(c, <<2, -1>>), Plus(c, <<2, 0>>), Plus(c, <<1, 1>>),
    Plus(c, <<0, 2>>), Plus(c, <<-1, 2>>), Plus(c, <<-2, 2>>),
    Plus(c, <<-2, 1>>), Plus(c, <<-2, 0>>), Plus(c, <<-1, -1>>)>>

(***************************************************************************)
(* Puzzle definitions  (src/src/defn.rs)                                   *)
(*                                                                         *)
(* A Cell is a record [kind, revealed, color, m, o]; the fields a kind     *)
(* does not carry hold a fixed filler.  A Defn is a function from Coords   *)
(* to Cell.                                                                *)
(***************************************************************************)

Modifiers == {"Anywhere", "Together", "Separated"}

Cell_Empty ==
  [kind |-> "Empty", revealed |-> FALSE, color |-> "Black",
   m |-> "Anywhere", o |-> "Bottom"]

Zone0(revealed, color) ==
  [kind |-> "Zone0", revealed |-> revealed, color |-> color,
   m |-> "Anywhere", o |-> "Bottom"]

Zone6(revealed, m) ==
  [kind |-> "Zone6", revealed |-> revealed, color |-> "Black",
   m |-> m, o |-> "Bottom"]

Zone18(revealed) ==
  [kind |-> "Zone18", revealed |-> revealed, color |-> "Blue",
   m |-> "Anywhere", o |-> "Bottom"]

Line(o, m) ==
  [kind |-> "Line", revealed |-> FALSE, color |-> "Black",
   m |-> m, o |-> o]

\* Option<Color>, with "NoColor" for None
color_of_cell(cell) ==
  CASE cell.kind = "Zone0" -> cell.color
    [] cell.kind = "Zone6" -> "Black"
    [] cell.kind = "Zone18" -> "Blue"
    [] OTHER -> "NoColor"

\* defn.get(&c).and_then(defn::color_of_cell)
color_at(d, c) == IF c \in DOMAIN d THEN color_of_cell(d[c]) ELSE "NoColor"

\* the cells of a walk that carry a colour, in the order of the walk
colored(d, cells) == SelectSeq(cells, LAMBDA c : color_at(d, c) # "NoColor")

blue_count_of_colored(d, cells) == Len(colored(d, cells))

\* blue_count += 1 in the Some(Color::Blue) arm
blue_count_of(d, cells) ==
  Len(SelectSeq(cells, LAMBDA c : color_at(d, c) = "Blue"))

(***************************************************************************)
(* Constraints of a puzzle  (src/src/constraint.rs)                        *)
(***************************************************************************)

scope_arr_of(d, coords) ==
  [n \in 1..6 |->
     <<neighbors6(coords)[n], color_at(d, neighbors6(coords)[n]) = "NoColor">>]

zone6(d, coords, modifier) ==
  IF modifier = "Anywhere"
    THEN distribute_anywhere(colored(d, neighbors6(coords)),
                             blue_count_of(d, neighbors6(coords)))
  ELSE distribute_in_ring(scope_arr_of(d, coords),
                          blue_count_of(d, neighbors6(coords)),
                          modifier = "Together")

zone18(d, coords) ==
  distribute_anywhere(colored(d, neighbors18(coords)),
                      blue_count_of(d, neighbors18(coords)))

\* (dq, dr) of an orientation
direction(orientation) ==
  CASE orientation = "Bottom" -> <<0, 1>>
    [] orientation = "BottomRight" -> <<1, 0>>
    [] orientation = "BottomLeft" -> <<-1, 1>>

\* for i in 0..33
LineWalk == 33

walk(coords, orientation) ==
  [n \in 1..LineWalk |->
     <<coords[1] + direction(orientation)[1] * (n - 1),
       coords[2] + direction(orientation)[2] * (n - 1)>>]

line_of(scope_vec, blue_count, modifier) ==
  CASE modifier = "Anywhere" -> distribute_anywhere(scope_vec, blue_count)
    [] modifier = "Together" -> distribute_together(scope_vec, blue_count)
    [] modifier = "Separated" -> distribute_separated(scope_vec, blue_count)

line(d, coords, orientation, modifier) ==
  line_of(colored(d, walk(coords, orientation)),
          blue_count_of(d, walk(coords, orientation)), modifier)

global_blue_count(d) ==
  distribute_anywhere(colored(d, CoordsSeq(DOMAIN d)),
                      blue_count_of(d, CoordsSeq(DOMAIN d)))

(***************************************************************************)
(* Progress  (src/src/solver.rs)                                           *)
(***************************************************************************)

is_unknown_zone0_only(cell) == cell.kind = "Zone0" /\ ~cell.revealed

\* the (false, _) arm of add, for the kinds of_defn passes to add
is_unknown(cell) ==
  cell.kind \in {"Zone0", "Zone6", "Zone18"} /\ ~cell.revealed

\* the colour of_defn passes to add
added_color(cell) ==
  CASE cell.kind = "Zone0" -> cell.color
    [] cell.kind = "Zone6" -> "Black"
    [] cell.kind = "Zone18" -> "Blue"
    [] OTHER -> "NoColor"

Progress_of_defn(d) ==
  [blues |-> {c \in DOMAIN d :
                ~is_unknown(d[c]) /\ added_color(d[c]) = "Blue"},
   blacks |-> {c \in DOMAIN d :
                 ~is_unknown(d[c]) /\ added_color(d[c]) = "Black"},
   unknowns |-> {c \in DOMAIN d : is_unknown(d[c])}]

Progress_is_solved(p) == p.unknowns = {}

\* the found cells are not removed from unknowns
Progress_update_keeps_unknowns(p, found_map) ==
  [blues |-> p.blues \cup {c \in DOMAIN found_map : found_map[c] = "Blue"},
   blacks |-> p.blacks \cup {c \in DOMAIN found_map : found_map[c] = "Black"},
   unknowns |-> p.unknowns]

Progress_update(p, found_map) ==
  [blues |-> p.blues \cup {c \in DOMAIN found_map : found_map[c] = "Blue"},
   blacks |-> p.blacks \cup {c \in DOMAIN found_map : found_map[c] = "Black"},
   unknowns |-> p.unknowns \ DOMAIN found_map]

(***************************************************************************)
(* Constraints  (src/src/solver.rs)                                        *)
(***************************************************************************)

\* Coords::new(999, 0, -999)
UNIQUE_COORDS == <<999, 0>>

hidden_of_defn(d) ==
  [c \in {c \in DOMAIN d : d[c].kind \in {"Zone6", "Zone18"}} |->
     IF d[c].kind = "Zone6" THEN zone6(d, c, d[c].m) ELSE zone18(d, c)]

visible_of_defn(d) ==
  [c \in {c \in DOMAIN d : d[c].kind = "Line"} \cup {UNIQUE_COORDS} |->
     IF c = UNIQUE_COORDS THEN global_blue_count(d)
     ELSE line(d, c, d[c].o, d[c].m)]

Constraints_of_defn(d) ==
  [constraints_hidden |-> hidden_of_defn(d),
   constraints_visible |-> visible_of_defn(d),
   constraints_exhausted |-> {}]

\* no constructor panicked while the constraints were built
AllBuilt(cons) ==
  /\ \A k \in DOMAIN cons.constraints_hidden : cons.constraints_hidden[k].ok
  /\ \A k \in DOMAIN cons.constraints_visible :
       cons.constraints_visible[k].ok

map_remove(map, k) == [j \in (DOMAIN map) \ {k} |-> map[j]]

revealed_keys(cons, visible_cells) ==
  (DOMAIN cons.constraints_hidden) \cap visible_cells

\* a revealed constraint is inserted in constraints_visible and not removed
\* from constraints_hidden
reveal_by_copy(cons, visible_cells) ==
  [constraints_hidden |-> cons.constraints_hidden,
   constraints_visible |->
     [k \in (DOMAIN cons.constraints_visible)
            \cup revealed_keys(cons, visible_cells) |->
        IF k \in revealed_keys(cons, visible_cells)
          THEN cons.constraints_hidden[k]
        ELSE cons.constraints_visible[k]],
   constraints_exhausted |-> cons.constraints_exhausted]

reveal(cons, visible_cells) ==
  [constraints_hidden |->
     [k \in (DOMAIN cons.constraints_hidden) \ visible_cells |->
        cons.constraints_hidden[k]],
   constraints_visible |->
     [k \in (DOMAIN cons.constraints_visible)
            \cup revealed_keys(cons, visible_cells) |->
        IF k \in revealed_keys(cons, visible_cells)
          THEN cons.constraints_hidden[k]
        ELSE cons.constraints_visible[k]],
   constraints_exhausted |-> cons.constraints_exhausted]

RECURSIVE learn_each(_, _, _)
learn_each(mv, coords_seq, color) ==
  IF coords_seq = <<>> THEN mv
  ELSE learn_each(learn(mv, Head(coords_seq), color), Tail(coords_seq), color)

\* only the blue cells are learned
narrow_inter_of_blues(mv, inter, p) ==
  learn_each(mv, CoordsSeq(inter \cap p.blues), "Blue")

narrow_inter(mv, inter, p) ==
  learn_each(learn_each(mv, CoordsSeq(inter \cap p.blues), "Blue"),
             CoordsSeq(inter \cap p.blacks), "Black")

narrow_one(mv, visible_cells, p) ==
  IF mv.scope \cap visible_cells = {} THEN mv
  ELSE narrow_inter(mv, mv.scope \cap visible_cells, p)

narrow(cons, visible_cells, p) ==
  [constraints_hidden |-> cons.constraints_hidden,
   constraints_visible |->
     [k \in DOMAIN cons.constraints_visible |->
        narrow_one(cons.constraints_visible[k], visible_cells, p)],
   constraints_exhausted |-> cons.constraints_exhausted]

\* gc panics: a Stuck constraint, or a panic of state() or of learn before
gc_panics(cons) ==
  \E k \in DOMAIN cons.constraints_visible :
    \/ ~cons.constraints_visible[k].ok
    \/ state(cons.constraints_visible[k]) \in {"Stuck", "Corrupted"}

\* the Empty constraints stay visible
gc_keeps_empty(cons) == cons

gc(cons) ==
  [constraints_hidden |-> cons.constraints_hidden,
   constraints_visible |->
     [k \in {k \in DOMAIN cons.constraints_visible :
               state(cons.constraints_visible[k]) # "Empty"} |->
        cons.constraints_visible[k]],
   constraints_exhausted |->
     cons.constraints_exhausted
       \cup {k \in DOMAIN cons.constraints_visible :
               state(cons.constraints_visible[k]) = "Empty"}]

Constraints_is_solved(cons) ==
  DOMAIN cons.constraints_visible = {} /\ DOMAIN cons.constraints_hidden = {}

\* the invariants map being filled, and whether the two assert_eq held:
\* agree is the one on a coords already in the map, truthful the one
\* against the colour of the cell in the puzzle
NoFindings == [invariants |-> <<>>, agree |-> TRUE, truthful |-> TRUE,
               ok |-> TRUE]

\* the (coords, color) pairs of mv.invariants(), in the order of the map
pairs_of_map(inv, cs) == [n \in 1..Len(cs) |-> <<cs[n], inv[cs[n]]>>]

pairs_of(mv) ==
  pairs_of_map(invariants(mv), CoordsSeq(DOMAIN invariants(mv)))

record_one(acc, coords, color, d) ==
  [invariants |-> (coords :> color) @@ acc.invariants,
   agree |-> acc.agree /\ (coords \in DOMAIN acc.invariants
                             => color = acc.invariants[coords]),
   truthful |-> acc.truthful /\ coords \in DOMAIN d
                  /\ color = color_of_cell(d[coords]),
   ok |-> acc.ok]

RECURSIVE record_findings(_, _, _)
record_findings(acc, pairs, d) ==
  IF pairs = <<>> THEN acc
  ELSE record_findings(record_one(acc, Head(pairs)[1], Head(pairs)[2], d),
                       Tail(pairs), d)

visible_pairs(visible, ks) ==
  Concat([n \in 1..Len(ks) |-> pairs_of(visible[ks[n]])])

local_keys(visible) == (DOMAIN visible) \ {UNIQUE_COORDS}

\* the global constraint left out, as in compound_invariants
trivial_invariants_of_local(cons, d) ==
  record_findings(NoFindings,
                  visible_pairs(cons.constraints_visible,
                                CoordsSeq(local_keys(cons.constraints_visible))),
                  d)

trivial_invariants(cons, d) ==
  record_findings(NoFindings,
                  visible_pairs(cons.constraints_visible,
                                CoordsSeq(DOMAIN cons.constraints_visible)),
                  d)

connections_of(visible) ==
  [k \in local_keys(visible) |->
     {j \in local_keys(visible) \ {k} :
        visible[k].scope \cap visible[j].scope # {}}]

\* the for k_new in &neighbor_contraints loop
RECURSIVE insert_neighbors(_, _, _, _, _)
insert_neighbors(groups, kset_old, mv_old, k_news, visible) ==
  IF k_news = <<>> THEN groups
  ELSE insert_neighbors(
         IF (kset_old \cup {Head(k_news)}) \in DOMAIN groups THEN groups
         ELSE ((kset_old \cup {Head(k_news)})
                 :> Multiverse_merge(mv_old, visible[Head(k_news)]))
              @@ groups,
         kset_old, mv_old, Tail(k_news), visible)

\* every other constraint taken for a neighbour, connected or not
neighbor_contraints_of_all(kset_old, connections) ==
  (DOMAIN connections) \ kset_old

neighbor_contraints(kset_old, connections) ==
  (UNION {connections[k] : k \in kset_old}) \ kset_old

\* the for kset_old in constraints_groups.keys() loop
RECURSIVE merge_round(_, _, _, _)
merge_round(groups, ksets, connections, visible) ==
  IF ksets = <<>> THEN groups
  ELSE merge_round(
         insert_neighbors(map_remove(groups, Head(ksets)), Head(ksets),
                          groups[Head(ksets)],
                          CoordsSeq(neighbor_contraints(Head(ksets),
                                                        connections)),
                          visible),
         Tail(ksets), connections, visible)

group_pairs(groups, ks) ==
  Concat([n \in 1..Len(ks) |-> pairs_of(groups[ks[n]])])

groups_ok(groups) == \A k \in DOMAIN groups : groups[k].ok

group_findings(groups, d) ==
  [record_findings(NoFindings, group_pairs(groups, KeySeq(DOMAIN groups)), d)
     EXCEPT !.ok = groups_ok(groups)]

Local(n) == [tier |-> "Local", n |-> n]

Global(n) == [tier |-> "Global", n |-> n]

RECURSIVE compound_loop(_, _, _, _, _)
\* an empty set of groups does not stop the loop: it stops two passes later
compound_round_past_empty(grown, res, n, connections, visible, d) ==
  IF ~res.ok \/ ~res.agree \/ ~res.truthful
       \/ DOMAIN res.invariants # {}
       \/ (DOMAIN grown = {} /\ n > Cardinality(DOMAIN visible) + 1)
    THEN [found |-> res, difficulty |-> Local(n)]
  ELSE compound_loop(grown, n + 1, connections, visible, d)

compound_round(grown, res, n, connections, visible, d) ==
  IF ~res.ok \/ ~res.agree \/ ~res.truthful
       \/ DOMAIN res.invariants # {} \/ DOMAIN grown = {}
    THEN [found |-> res, difficulty |-> Local(n)]
  ELSE compound_loop(grown, n + 1, connections, visible, d)

grown_findings(grown, n, connections, visible, d) ==
  compound_round(grown, group_findings(grown, d), n, connections, visible, d)

compound_loop(groups, n, connections, visible, d) ==
  grown_findings(merge_round(groups, KeySeq(DOMAIN groups), connections,
                             visible),
                 n, connections, visible, d)

constraints_groups_of(visible) ==
  [ks \in {{k} : k \in local_keys(visible)} |->
     visible[CHOOSE k \in ks : TRUE]]

compound_invariants(cons, d) ==
  IF local_keys(cons.constraints_visible) = {}
    THEN [found |-> NoFindings, difficulty |-> Local(2)]
  ELSE compound_loop(constraints_groups_of(cons.constraints_visible), 2,
                     connections_of(cons.constraints_visible),
                     cons.constraints_visible, d)

\* the fold of merge over constraints_visible.values().rev()
RECURSIVE merge_all(_, _, _)
merge_all(mv, ks, visible) ==
  IF ks = <<>> THEN mv
  ELSE merge_all(Multiverse_merge(mv, visible[Head(ks)]), Tail(ks), visible)

merged_findings(mv, d) ==
  [record_findings(NoFindings, pairs_of(mv), d) EXCEPT !.ok = mv.ok]

global_invariants(cons, d) ==
  merged_findings(
    merge_all(empty, Reverse(CoordsSeq(DOMAIN cons.constraints_visible)),
              cons.constraints_visible),
    d)

(***************************************************************************)
(* The multiverse algebra as a state machine.                              *)
(*                                                                         *)
(* left, right and third hold multiverses made by the builders; an         *)
(* operation (merge, learn, a chain of two merges) leaves its result in    *)
(* out, and Keep feeds the result back as the only operand.                *)
(***************************************************************************)

VARIABLES left, right, third, out, found, op, arg, nops

algebra_vars == <<left, right, third, out, found, op, arg, nops>>

\* the state of one run of solve (src/src/solver.rs), see below
VARIABLES defn, progress, constraints, history, pending, findings,
          difficulty, pc, outcome

solver_vars ==
  <<defn, progress, constraints, history, pending, findings, difficulty, pc,
    outcome>>

vars == <<algebra_vars, solver_vars>>

\* the ring cells the algebra works on: positions 0, 1 and 5 around <<0, 0>>
Universe == {<<-1, 0>>, <<0, -1>>, <<1, -1>>}

\* a line of four cells: the ring cells and ring position 2
Line4 == Universe \cup {<<1, 0>>}

Center == <<0, 0>>

\* the number of results fed back as operands in one run
MaxOps == 1

Colors == {"Blue", "Black"}

NoArg == [coords |-> Center, color |-> "Black"]

Scopes == ((SUBSET Universe) \ {{}}) \cup {Line4}

\* a line walks its cells in increasing (Bottom, BottomRight) or decreasing
\* (BottomLeft) order of Coords
ScopeVecs(S) == {CoordsSeq(S), Reverse(CoordsSeq(S))}

\* the ring around Center, with every cell outside S a gap
RingOf(S) ==
  [n \in 1..6 |-> <<neighbors6(Center)[n], neighbors6(Center)[n] \notin S>>]

InitAlgebra ==
  /\ left = empty
  /\ right = empty
  /\ third = empty
  /\ out = empty
  /\ found = <<>>
  /\ op = "init"
  /\ arg = NoArg
  /\ nops = 0

\* the builders fill the left register, then the right one
Put(mv) ==
  /\ op \in {"init", "left"}
  /\ mv.ok
  /\ IF op = "init" THEN left' = mv /\ right' = right /\ op' = "left"
     ELSE left' = left /\ right' = mv /\ op' = "right"
  /\ UNCHANGED <<third, out, found, arg, nops, solver_vars>>

\* a builder runs when a register is free; the multiverse is built then,
\* by the step that stores it
BuildAnywhere ==
  /\ op \in {"init", "left"}
  /\ \E S \in Scopes \cup {{}} : \E k \in 0..Cardinality(S) :
       Put(distribute_anywhere(CoordsSeq(S), k))

BuildTogether ==
  /\ op \in {"init", "left"}
  /\ \E S \in Scopes : \E v \in ScopeVecs(S) : \E k \in 0..Cardinality(S) :
       Put(distribute_together(v, k))

BuildSeparated ==
  /\ op \in {"init", "left"}
  /\ \E S \in Scopes : \E v \in ScopeVecs(S) : \E k \in 0..Cardinality(S) :
       Put(distribute_separated(v, k))

BuildRing ==
  /\ op \in {"init", "left"}
  /\ \E S \in Scopes : \E k \in 0..Cardinality(S) : \E together \in BOOLEAN :
       Put(distribute_in_ring(RingOf(S), k, together))

\* Multiverse::new(scope, vec![]) as in test_multiverse_edge_cases
BuildStuck ==
  /\ op \in {"init", "left"}
  /\ \E S \in Scopes : Put(Multiverse_new(S, <<>>))

Ready == op \in {"left", "right", "keep"}

Merge ==
  /\ Ready
  /\ out' = Multiverse_merge(left, right)
  /\ op' = "merge"
  /\ UNCHANGED <<left, right, third, found, arg, nops, solver_vars>>

\* learn has one operand: the right register is idle
Learn ==
  /\ op \in {"left", "keep"}
  /\ \E coords \in left.scope : \E color \in Colors :
       /\ out' = learn(left, coords, color)
       /\ arg' = [coords |-> coords, color |-> color]
  /\ op' = "learn"
  /\ UNCHANGED <<left, right, third, found, nops, solver_vars>>

Built ==
  {mv \in
     {distribute_anywhere(CoordsSeq(S), k) :
        S \in Scopes \cup {{}}, k \in 0..Cardinality(Line4)}
     \cup {distribute_together(v, k) :
        v \in UNION {ScopeVecs(S) : S \in Scopes},
        k \in 0..Cardinality(Line4)}
     \cup {distribute_separated(v, k) :
        v \in UNION {ScopeVecs(S) : S \in Scopes},
        k \in 0..Cardinality(Line4)}
     \cup {distribute_in_ring(RingOf(S), k, t) :
        S \in Scopes, k \in 0..Cardinality(Line4), t \in BOOLEAN}
     \cup {Multiverse_new(S, <<>>) : S \in Scopes}
   : mv.ok}

\* (left merge right) merge c, for a third multiverse c
MergeThree ==
  /\ Ready
  /\ nops = 0
  /\ left.scope \cup right.scope \subseteq Universe
  /\ \E c \in Built :
       /\ c.scope \subseteq Universe
       /\ third' = c
       /\ out' = Multiverse_merge(Multiverse_merge(left, right), c)
  /\ op' = "merge3"
  /\ UNCHANGED <<left, right, found, arg, nops, solver_vars>>

\* invariants has one operand, like learn
Invariants ==
  /\ op \in {"left", "keep"}
  /\ found' = invariants(left)
  /\ op' = "invariants"
  /\ UNCHANGED <<left, right, third, out, arg, nops, solver_vars>>

Keep ==
  /\ op \in {"merge", "learn"}
  /\ nops < MaxOps
  /\ out.ok
  /\ left' = out
  /\ right' = empty
  /\ out' = empty
  /\ op' = "keep"
  /\ arg' = NoArg
  /\ nops' = nops + 1
  /\ UNCHANGED <<third, found, solver_vars>>

(***************************************************************************)
(* One run of solve  (src/src/solver.rs) as a state machine.               *)
(*                                                                         *)
(* pc is the position in solve: "start" before the first statement,        *)
(* "loop" at the head of the loop, "trivial" / "compound" / "global"       *)
(* before steps 5.1 / 5.2 / 5.3, "update" before history.push, "done"      *)
(* after the return or the panic.  pending[i] is the set of unknown cells  *)
(* when history[i] was pushed.                                             *)
(***************************************************************************)

\* the puzzles solve is run on: a column <<0, -1>>, <<0, 0>>, <<0, 1>> under
\* the line cell <<0, -2>>, and the cells <<1, -1>> and <<1, 0>> on the ring
\* of <<0, 0>>
Puzzles ==
  {(<<0, 0>> :> cz) @@ (<<0, -1>> :> ca) @@ (<<0, 1>> :> cb)
     @@ (<<1, -1>> :> cc) @@ (<<1, 0>> :> cd) @@ (<<0, -2>> :> cl) :
     cz \in {Zone6(r, m) : r \in BOOLEAN, m \in Modifiers},
     ca \in {Zone0(r, k) : r \in BOOLEAN, k \in Colors},
     cb \in {Zone0(r, k) : r \in BOOLEAN, k \in Colors},
     cc \in {Zone0(FALSE, k) : k \in Colors} \cup {Zone18(r) : r \in BOOLEAN},
     cd \in {Zone0(FALSE, k) : k \in Colors} \cup {Cell_Empty},
     cl \in {Line("Bottom", m) : m \in Modifiers}
            \cup {Line(o, "Anywhere") : o \in {"BottomRight", "BottomLeft"}}
            \cup {Cell_Empty}}

NoProgress == [blues |-> {}, blacks |-> {}, unknowns |-> {}]

NoConstraints ==
  [constraints_hidden |-> <<>>, constraints_visible |-> <<>>,
   constraints_exhausted |-> {}]

\* let mut difficulty; before its first assignment
NoDifficulty == Local(0)

SolverBlank ==
  /\ progress = NoProgress
  /\ constraints = NoConstraints
  /\ history = <<>>
  /\ pending = <<>>
  /\ findings = <<>>
  /\ difficulty = NoDifficulty
  /\ outcome = "Pending"

\* the solver does not run
SolverIdle == defn = <<>> /\ pc = "idle" /\ SolverBlank

SolverInit == defn \in Puzzles /\ pc = "start" /\ SolverBlank

visible_cells_of(p) == p.blacks \cup p.blues

Return(result) == pc' = "done" /\ outcome' = result

\* Progress::of_defn and Constraints::of_defn
Begin ==
  /\ pc = "start"
  /\ progress' = Progress_of_defn(defn)
  /\ constraints' = Constraints_of_defn(defn)
  /\ IF AllBuilt(Constraints_of_defn(defn))
       THEN pc' = "loop" /\ outcome' = outcome
     ELSE Return("panic in a constraint constructor")
  /\ UNCHANGED <<defn, history, pending, findings, difficulty, algebra_vars>>

\* narrow runs before reveal: the constraints revealed in an iteration are
\* narrowed in the next one
refreshed_narrow_first(cons, p) ==
  reveal(narrow(cons, visible_cells_of(p), p), visible_cells_of(p))

refreshed(cons, p) ==
  narrow(reveal(cons, visible_cells_of(p)), visible_cells_of(p), p)

\* steps 1 to 4 of the loop
Refresh ==
  /\ pc = "loop"
  /\ IF gc_panics(refreshed(constraints, progress))
       THEN /\ constraints' = refreshed(constraints, progress)
            /\ Return("panic in gc")
     ELSE /\ constraints' = gc(refreshed(constraints, progress))
          /\ IF Progress_is_solved(progress)
               THEN IF Constraints_is_solved(constraints')
                      THEN Return("Solved")
                    ELSE Return("panic in step 4")
             ELSE IF Constraints_is_solved(constraints')
               THEN Return("panic in step 4")
             ELSE pc' = "trivial" /\ outcome' = outcome
  /\ UNCHANGED <<defn, progress, history, pending, findings, difficulty,
                 algebra_vars>>

\* what solve does with the invariants of a tier
Found(res, diff, next_pc) ==
  /\ findings' = res.invariants
  /\ difficulty' = diff
  /\ IF ~res.ok THEN Return("panic in merge")
     ELSE IF ~res.agree THEN Return("panic: assert_eq on two findings")
     ELSE IF ~res.truthful THEN Return("panic: assert_eq on the true colour")
     ELSE IF DOMAIN res.invariants # {}
       THEN pc' = "update" /\ outcome' = outcome
     ELSE IF next_pc = "done" THEN Return("Unsolvable")
     ELSE pc' = next_pc /\ outcome' = outcome
  /\ UNCHANGED <<defn, progress, constraints, history, pending, algebra_vars>>

\* step 5.1 stops at one visible constraint, in no fixed order
Trivial_of_any_constraint ==
  /\ pc = "trivial"
  /\ \E k \in DOMAIN constraints.constraints_visible :
       Found(record_findings(NoFindings,
                             pairs_of(constraints.constraints_visible[k]),
                             defn),
             Local(1), "compound")

\* step 5.1
Trivial ==
  /\ pc = "trivial"
  /\ Found(trivial_invariants(constraints, defn), Local(1), "compound")

compound_found(res) == Found(res.found, res.difficulty, "global")

\* step 5.2
Compound ==
  /\ pc = "compound"
  /\ compound_found(compound_invariants(constraints, defn))

\* step 5.3
GlobalSearch ==
  /\ pc = "global"
  /\ Found(global_invariants(constraints, defn),
           Global(Cardinality(DOMAIN constraints.constraints_visible)),
           "done")

Findings(diff, cells) == [difficulty |-> diff, cells |-> cells]

\* the step of the tier that timed out is pushed before solve returns
Timeout_after_push ==
  /\ \/ pc = "compound" /\ local_keys(constraints.constraints_visible) # {}
     \/ pc = "global" /\ DOMAIN constraints.constraints_visible # {}
  /\ Return("Timeout")
  /\ history' = Append(history, Findings(difficulty, DOMAIN findings))
  /\ pending' = Append(pending, progress.unknowns)
  /\ UNCHANGED <<defn, progress, constraints, findings, difficulty,
                 algebra_vars>>

\* env.check_timeout()? fails in step 5.2 or in step 5.3
Timeout ==
  /\ \/ pc = "compound" /\ local_keys(constraints.constraints_visible) # {}
     \/ pc = "global" /\ DOMAIN constraints.constraints_visible # {}
  /\ Return("Timeout")
  /\ UNCHANGED <<defn, progress, constraints, history, pending, findings,
                 difficulty, algebra_vars>>

\* history.push and step 6
Update ==
  /\ pc = "update"
  /\ history' = Append(history, Findings(difficulty, DOMAIN findings))
  /\ pending' = Append(pending, progress.unknowns)
  /\ progress' = Progress_update(progress, findings)
  /\ pc' = "loop"
  /\ UNCHANGED <<defn, constraints, findings, difficulty, outcome,
                 algebra_vars>>

SolverNext ==
  \/ Begin
  \/ Refresh
  \/ Trivial
  \/ Compound
  \/ GlobalSearch
  \/ Timeout
  \/ Update

\* what solve returns or how it panics, and the steps it pushed
Ended(result, steps) == [outcome |-> result, history |-> steps]

\* the loop of solve when no call of check_timeout fails
RECURSIVE solve_loop(_, _, _, _)
solve_loop(d, p, cons, steps) ==
  LET fresh == refreshed(cons, p)
      kept == gc(fresh)
      t1 == trivial_invariants(kept, d)
      t2 == compound_invariants(kept, d)
      t3 == global_invariants(kept, d)
      panic_of(res) ==
        IF ~res.ok THEN "panic in merge"
        ELSE IF ~res.agree THEN "panic: assert_eq on two findings"
        ELSE IF ~res.truthful THEN "panic: assert_eq on the true colour"
        ELSE ""
      step(res, diff) ==
        solve_loop(d, Progress_update(p, res.invariants), kept,
                   Append(steps, Findings(diff, DOMAIN res.invariants)))
  IN IF gc_panics(fresh) THEN Ended("panic in gc", steps)
     ELSE IF Progress_is_solved(p) # Constraints_is_solved(kept)
       THEN Ended("panic in step 4", steps)
     ELSE IF Progress_is_solved(p) THEN Ended("Solved", steps)
     ELSE IF panic_of(t1) # "" THEN Ended(panic_of(t1), steps)
     ELSE IF DOMAIN t1.invariants # {} THEN step(t1, Local(1))
     ELSE IF panic_of(t2.found) # "" THEN Ended(panic_of(t2.found), steps)
     ELSE IF DOMAIN t2.found.invariants # {}
       THEN step(t2.found, t2.difficulty)
     ELSE IF panic_of(t3) # "" THEN Ended(panic_of(t3), steps)
     ELSE IF DOMAIN t3.invariants # {}
       THEN step(t3, Global(Cardinality(DOMAIN kept.constraints_visible)))
     ELSE Ended("Unsolvable", steps)

\* solve(env, defn, verbose) with a clock that never reaches max_duration
solve(d) ==
  IF AllBuilt(Constraints_of_defn(d))
    THEN solve_loop(d, Progress_of_defn(d), Constraints_of_defn(d), <<>>)
  ELSE Ended("panic in a constraint constructor", <<>>)

SolverStart == InitAlgebra /\ SolverInit

SolverSpec == SolverStart /\ [][SolverNext]_vars

Next ==
  \/ BuildAnywhere
  \/ BuildTogether
  \/ BuildSeparated
  \/ BuildRing
  \/ BuildStuck
  \/ Merge
  \/ Learn
  \/ MergeThree
  \/ Invariants
  \/ Keep

Init == InitAlgebra /\ SolverIdle

Spec == Init /\ [][Next]_vars

(***************************************************************************)
(* The constructors and the counting functions called on their own, once   *)
(* per run: arg holds the arguments of the call named by op, out its       *)
(* result.                                                                 *)
(***************************************************************************)

\* Multiverse::new(scope, layouts) on lists of 0, 1 and 2 layouts of no
\* group, of one group and of two groups
CallNew ==
  LET pool ==
        {Layout_new(MapOf({}))}
          \cup {Layout_new(MapOf({<<S, k>>})) :
                  S \in (SUBSET Universe) \ {{}}, k \in 0..1}
          \cup {Layout_new(MapOf({<<{c}, 1>>, <<Universe \ {c}, k>>})) :
                  c \in Universe, k \in 0..1}
      lists ==
        {<<>>} \cup {<<l>> : l \in pool}
          \cup {<<l, m>> : l \in pool, m \in pool}
  IN /\ op = "init"
     /\ \E scope \in SUBSET Universe : \E layouts \in lists :
          /\ out' = Multiverse_new(scope, layouts)
          /\ arg' = [scope |-> scope, layouts |-> layouts]
          /\ op' = "new"
          /\ UNCHANGED <<left, right, third, found, nops, solver_vars>>

\* the largest n given to n_choose_k
MaxN == 19

\* n_choose_k(n, k)
CallChoose ==
  /\ op = "init"
  /\ \E n \in 0..MaxN : \E k \in 0..n :
       /\ out' = n_choose_k(n, k)
       /\ arg' = [n |-> n, k |-> k]
       /\ op' = "n_choose_k"
       /\ UNCHANGED <<left, right, third, found, nops, solver_vars>>

\* the size of a group whose coefficient overflows while it is computed
LargeGroup == 18

\* Layout::solution_count on layouts of one, two and three groups, in
\* columns 0, 1 and 2: a group of n cells in column q holds the cells
\* <<q, 0>> .. <<q, n - 1>>
CallCount ==
  LET sizes == {2, 8}
      Column(q, n) == {<<q, r>> : r \in 0..(n - 1)}
      Entries(q, ns) == UNION {{<<Column(q, n), k>> : k \in 0..n} : n \in ns}
      first == Entries(0, sizes \cup {LargeGroup})
      layouts ==
        {Layout_new(MapOf({a})) : a \in first}
          \cup {Layout_new(MapOf({a, b})) :
                  a \in first, b \in Entries(1, sizes)}
          \cup {Layout_new(MapOf({a, b, c})) :
                  a \in first, b \in Entries(1, sizes),
                  c \in Entries(2, sizes)}
  IN /\ op = "init"
     /\ \E lay \in layouts :
          /\ lay.ok
          /\ out' = solution_count(lay)
          /\ arg' = [lay |-> lay]
          /\ op' = "solution_count"
          /\ UNCHANGED <<left, right, third, found, nops, solver_vars>>

\* the multiverses of the builders whose layouts never overlap, on the
\* scopes of the algebra and on the whole rings of the two zones of
\* test_two_zone6_horizontal_neighbors
BuiltExact ==
  LET ZoneCenters == {<<0, 0>>, <<2, -1>>} IN
  {mv \in
     {distribute_anywhere(CoordsSeq(S), k) :
        S \in Scopes \cup {{}}, k \in 0..Cardinality(Line4)}
     \cup {distribute_together(v, k) :
        v \in UNION {ScopeVecs(S) : S \in Scopes},
        k \in 0..Cardinality(Line4)}
     \cup {distribute_in_ring(RingOf(S), k, t) :
        S \in Scopes, k \in 0..Cardinality(Line4), t \in BOOLEAN}
     \cup {distribute_anywhere(neighbors6(c), k) :
        c \in ZoneCenters, k \in 0..6}
     \cup {distribute_in_ring([n \in 1..6 |-> <<neighbors6(c)[n], FALSE>>],
                              k, t) :
        c \in ZoneCenters, k \in 0..6, t \in BOOLEAN}
   : mv.ok}

\* (a merge b) merge c, then solution_count_upper_bound, as in test_zone6
\* and test_ring_together; a third multiverse is merged into small ones
CallUpperBound ==
  /\ op = "init"
  /\ \E a \in Built \cup BuiltExact : \E b \in Built \cup BuiltExact :
       \E c \in {empty}
                \cup {mv \in Built :
                        mv.scope = Universe /\ Len(mv.layouts) >= 2} :
         /\ c = empty \/ a.scope \cup b.scope \subseteq Universe
         /\ left' = a
         /\ right' = b
         /\ third' = c
         /\ out' = Multiverse_merge(Multiverse_merge(a, b), c)
         /\ found' = solution_count_upper_bound(out')
         /\ op' = "upper_bound"
         /\ UNCHANGED <<arg, nops, solver_vars>>

\* the length of the longest line given to the line builders
MaxLine == 5

\* the cells of a line, in any order
LineVecs ==
  LET cells == {<<0, r>> : r \in 0..(MaxLine - 1)} IN
  {v \in UNION {[1..n -> cells] : n \in 1..MaxLine} :
     \A i \in DOMAIN v : \A j \in DOMAIN v : i # j => v[i] # v[j]}

\* distribute_together(scope_vec, blue_count)
CallTogether ==
  /\ op = "init"
  /\ \E v \in LineVecs : \E k \in 0..Len(v) :
       /\ out' = distribute_together(v, k)
       /\ arg' = [scope_vec |-> v, blue_count |-> k]
       /\ op' = "together"
       /\ UNCHANGED <<left, right, third, found, nops, solver_vars>>

\* distribute_separated(scope_vec, blue_count), then
\* solution_count_upper_bound as in test_line_separated
CallSeparated ==
  /\ op = "init"
  /\ \E v \in LineVecs : \E k \in 0..Len(v) :
       /\ out' = distribute_separated(v, k)
       /\ found' = solution_count_upper_bound(out')
       /\ arg' = [scope_vec |-> v, blue_count |-> k]
       /\ op' = "separated"
       /\ UNCHANGED <<left, right, third, nops, solver_vars>>

\* distribute_in_ring(scope_arr, blue_count, true) in out and
\* distribute_in_ring(scope_arr, blue_count, false) in found, on the ring
\* of <<0, 0>> with the positions of gaps (0 to 5) as gaps
CallRing ==
  /\ op = "init"
  /\ \E gaps \in SUBSET (0..5) : \E k \in 0..6 :
       LET scope_arr ==
             [n \in 1..6 |-> <<neighbors6(Center)[n], (n - 1) \in gaps>>]
       IN /\ out' = distribute_in_ring(scope_arr, k, TRUE)
          /\ found' = distribute_in_ring(scope_arr, k, FALSE)
          /\ arg' = [scope_arr |-> scope_arr, blue_count |-> k]
          /\ op' = "ring"
          /\ UNCHANGED <<left, right, third, nops, solver_vars>>

\* self.align(other) on layouts of one and two groups of the four cells
\* <<1, 0>> .. <<1, 3>>, and on a group of LargeGroup cells in column 0,
\* alone or with the two cells <<1, 0>> and <<1, 1>>, aligned with groups
\* that hold a part of it
CallAlign ==
  LET four == {<<1, r>> : r \in 0..3}
      Rows(lo, hi) == {<<0, r>> : r \in lo..hi}
      Counted(G) == {<<G, k>> : k \in 0..Cardinality(G)}
      parts == (SUBSET four) \ {{}}
      small ==
        {Layout_new(MapOf({e})) : e \in UNION {Counted(G) : G \in parts}}
          \cup {Layout_new(MapOf({e[1], e[2]})) :
                  e \in UNION {Counted(GH[1]) \X Counted(GH[2]) :
                                 GH \in {x \in parts \X parts :
                                           x[1] \cap x[2] = {}}}}
      half == LargeGroup \div 2
      large ==
        {Layout_new(MapOf({e})) : e \in Counted(Rows(0, LargeGroup - 1))}
          \cup {Layout_new(MapOf({e, <<{<<1, 0>>, <<1, 1>>}, j>>})) :
                  e \in Counted(Rows(0, LargeGroup - 1)), j \in 0..2}
      others ==
        {Layout_new(MapOf({<<Rows(0, half - 1), 4>>})),
         Layout_new(MapOf({<<Rows(0, half - 1), 4>>,
                           <<Rows(half, LargeGroup - 1), 5>>})),
         Layout_new(MapOf({<<Rows(0, 3), 2>>})),
         Layout_new(MapOf({<<Rows(0, 3), 2>>,
                           <<Rows(half, LargeGroup - 1), 3>>})),
         Layout_new(MapOf({<<Rows(0, 3) \cup {<<1, 0>>}, 1>>}))}
      pairs == (small \X small) \cup (large \X others)
  IN /\ op = "init"
     /\ \E pair \in pairs :
          /\ out' = align(pair[1], pair[2])
          /\ arg' = [self |-> pair[1], other |-> pair[2]]
          /\ op' = "align"
          /\ UNCHANGED <<left, right, third, found, nops, solver_vars>>

\* the groups of compound_invariants when the loop is at the difficulty n:
\* the constraints one by one, then one round of merges for each phase
RECURSIVE constraints_groups_at(_, _)
constraints_groups_at(visible, n) ==
  IF n = 1 THEN constraints_groups_of(visible)
  ELSE LET groups == constraints_groups_at(visible, n - 1) IN
       merge_round(groups, KeySeq(DOMAIN groups), connections_of(visible),
                   visible)

\* compound_invariants at step 5.2 of the first iteration of solve, on the
\* puzzles of a row a .. e = <<0, 0>> .. <<4, 0>> of hidden cells read by
\* the line <<-1, 0>>, with the zones <<0, 1>> (around a and b) and
\* <<2, 1>> (around c and d) and the line <<2, -2>> down the column of
\* f = <<2, -1>> and c; each of the four clues is there or not
CallCompound ==
  LET cells == {<<q, 0>> : q \in 0..4} \cup {<<2, -1>>}
      clues ==
        [x \in {<<-1, 0>>, <<0, 1>>, <<2, 1>>, <<2, -2>>} |->
           CASE x = <<-1, 0>> -> Line("BottomRight", "Anywhere")
             [] x = <<2, -2>> -> Line("Bottom", "Anywhere")
             [] OTHER -> Zone6(TRUE, "Anywhere")]
      puzzle(blues, there) ==
        [c \in cells \cup there |->
           IF c \in there THEN clues[c]
           ELSE Zone0(FALSE, IF c \in blues THEN "Blue" ELSE "Black")]
  IN /\ op = "init"
     /\ \E blues \in SUBSET cells : \E there \in SUBSET (DOMAIN clues) :
          LET d == puzzle(blues, there)
              cons == gc(refreshed(Constraints_of_defn(d),
                                   Progress_of_defn(d)))
          IN /\ AllBuilt(Constraints_of_defn(d))
             /\ out' = compound_invariants(cons, d)
             /\ arg' = [cons |-> cons, defn |-> d]
             /\ op' = "compound_invariants"
             /\ UNCHANGED <<left, right, third, found, nops, solver_vars>>

CallNext ==
  \/ CallNew
  \/ CallCompound
  \/ CallAlign
  \/ CallRing
  \/ CallTogether
  \/ CallSeparated
  \/ CallUpperBound
  \/ CallChoose
  \/ CallCount

CallSpec == Init /\ [][CallNext]_vars

(***************************************************************************)
(* The colourings a multiverse describes.  A colouring of a scope is the   *)
(* set of its blue cells.                                                  *)
(***************************************************************************)

Satisfies(blues, lay) ==
  \A g \in Keys(lay) : Cardinality(blues \cap g) = lay.binomial_coefs[g]

Solutions(mv) ==
  {blues \in SUBSET mv.scope :
     \E i \in 1..Len(mv.layouts) : Satisfies(blues, mv.layouts[i])}

Occurrences(lays, lay) == Cardinality({i \in 1..Len(lays) : lays[i] = lay})

\* the same layouts, in any order
SameLayouts(a, b) ==
  /\ Len(a) = Len(b)
  /\ \A lay \in SeqRange(a) \cup SeqRange(b) :
       Occurrences(a, lay) = Occurrences(b, lay)

\* two multiverses built without a panic, with the same scope, the same
\* solutions and the same layouts in any order
SameUpToOrder(a, b) ==
  /\ a.ok /\ b.ok
  /\ a.scope = b.scope
  /\ Solutions(a) = Solutions(b)
  /\ SameLayouts(a.layouts, b.layouts)

\* the colourings of mv in which coords has the colour, with coords dropped
Restricted(mv, coords, color) ==
  {blues \ {coords} :
     blues \in {b \in Solutions(mv) : (coords \in b) <=> (color = "Blue")}}

GroupUnionIsScope(mv) ==
  \A i \in 1..Len(mv.layouts) : GroupUnion(mv.layouts[i]) = mv.scope

(***************************************************************************)
(* Claims on the algebra                                                   *)
(***************************************************************************)

\* C1: the merge of two Running multiverses describes exactly the colourings
\* of the union scope whose restrictions to the two scopes are solutions of
\* the two operands: none is lost and none is added.
C1_MergeIsIntersection ==
  (op = "merge" /\ state(left) = "Running" /\ state(right) = "Running") =>
    /\ out.ok
    /\ out.scope = left.scope \cup right.scope
    /\ Solutions(out) =
         {blues \in SUBSET (left.scope \cup right.scope) :
            /\ blues \cap left.scope \in Solutions(left)
            /\ blues \cap right.scope \in Solutions(right)}

\* two multi-layout operands that overlap without being equal were merged
\* and some joint solutions, but not all combinations, survive
C1_Witness ==
  /\ op = "merge"
  /\ state(left) = "Running" /\ state(right) = "Running"
  /\ Len(left.layouts) >= 2 /\ Len(right.layouts) >= 2
  /\ left.scope \cap right.scope # {}
  /\ left.scope \ right.scope # {}
  /\ right.scope \ left.scope # {}
  /\ Len(out.layouts) >= 2
  /\ Cardinality(Solutions(out))
       < Cardinality(Solutions(left)) * Cardinality(Solutions(right))

\* C2: the invariants of a Running multiverse are cells of its scope, and
\* each of them has the reported colour in every colouring of every layout.
C2_InvariantsSound ==
  (op = "invariants" /\ state(left) = "Running") =>
    /\ DOMAIN found \subseteq left.scope
    /\ \A c \in DOMAIN found : \A blues \in Solutions(left) :
         (c \in blues) <=> (found[c] = "Blue")

\* invariants were found in a multiverse whose layouts overlap (the same
\* colouring is described by two of them) and that leaves other cells open
C2_Witness ==
  /\ op = "invariants"
  /\ state(left) = "Running"
  /\ DOMAIN found # {}
  /\ DOMAIN found # left.scope
  /\ \E i \in 1..Len(left.layouts) : \E j \in 1..Len(left.layouts) :
       /\ i # j
       /\ \E blues \in SUBSET left.scope :
            Satisfies(blues, left.layouts[i]) /\ Satisfies(blues, left.layouts[j])

\* C5: merge(A, B) and merge(B, A) have the same scope, the same solutions
\* and the same layouts up to their order, for all multiverses A and B.
C5_MergeCommutative ==
  op = "merge" => SameUpToOrder(out, Multiverse_merge(right, left))

\* two different Running operands were merged into several layouts
C5_Witness ==
  /\ op = "merge"
  /\ state(left) = "Running" /\ state(right) = "Running"
  /\ left # right
  /\ left.scope \cap right.scope # {}
  /\ Len(out.layouts) >= 3
  /\ out.layouts # Multiverse_merge(right, left).layouts

\* C6: merge(merge(A, B), C) and merge(A, merge(B, C)) have the same scope
\* and the same layouts up to their order.
C6_MergeAssociative ==
  op = "merge3" =>
    SameUpToOrder(out,
                  Multiverse_merge(left, Multiverse_merge(right, third)))

\* three Running operands with pairwise different scopes were merged and
\* the result is Running
C6_Witness ==
  /\ op = "merge3"
  /\ state(left) = "Running" /\ state(right) = "Running"
  /\ state(third) = "Running"
  /\ left.scope # right.scope /\ right.scope # third.scope
  /\ left.scope # third.scope
  /\ Len(left.layouts) >= 2 /\ Len(third.layouts) >= 2
  /\ Len(out.layouts) >= 2

\* C7: merging with the Empty multiverse, on either side, returns the other
\* operand unchanged, whether it is Running, Stuck or Empty.
C7_EmptyIsIdentity ==
  op = "merge" =>
    /\ state(right) = "Empty" => out = left
    /\ state(left) = "Empty" => out = right

\* a Running multiverse was merged into the Empty one
C7_Witness ==
  /\ op = "merge"
  /\ state(left) = "Empty"
  /\ state(right) = "Running"
  /\ Len(right.layouts) >= 2

\* C8: a merge with a Stuck operand is Stuck, over the union of the scopes.
C8_StuckAbsorbs ==
  (op = "merge" /\ (state(left) = "Stuck" \/ state(right) = "Stuck")) =>
    /\ out.ok
    /\ state(out) = "Stuck"
    /\ out.scope = left.scope \cup right.scope

\* a Stuck multiverse was merged with a Running one that has other cells
C8_Witness ==
  /\ op = "merge"
  /\ state(right) = "Stuck"
  /\ state(left) = "Running"
  /\ left.scope \ right.scope # {}
  /\ right.scope \ left.scope # {}

\* C9: learning the colour of a cell c of the scope, when the scope is not
\* {c} alone, gives the scope without c and exactly the solutions in which
\* c has that colour, with c dropped; with no such solution it is Stuck.
C9_LearnIsRestriction ==
  (op = "learn" /\ left.scope # {arg.coords}) =>
    /\ out.ok
    /\ out.scope = left.scope \ {arg.coords}
    /\ Solutions(out) = Restricted(left, arg.coords, arg.color)
    /\ Restricted(left, arg.coords, arg.color) = {} => state(out) = "Stuck"

\* a cell was learned out of a group of several cells of a multi-layout
\* multiverse: some layouts were dropped and some kept
C9_Witness ==
  /\ op = "learn"
  /\ Len(left.layouts) >= 2
  /\ \E i \in 1..Len(left.layouts) : {arg.coords} \notin Keys(left.layouts[i])
  /\ state(out) = "Running"
  /\ Cardinality(Solutions(out)) < Cardinality(Solutions(left))

\* C10: in every multiverse made by the builders, merge and learn, the
\* union of the groups of each layout is the scope, and no construction
\* trips the check of Multiverse::new.
C10_GroupUnionIsScope ==
  \A mv \in {left, right, third, out} : mv.ok /\ GroupUnionIsScope(mv)

\* a merged multiverse was fed back and a cell learned out of it
C10_Witness ==
  /\ op = "learn"
  /\ nops >= 1
  /\ Len(left.layouts) >= 2
  /\ state(out) = "Running"

(***************************************************************************)
(* The rules of the game, stated on the puzzle alone.                      *)
(***************************************************************************)

TrueBlues(d) == {c \in DOMAIN d : color_of_cell(d[c]) = "Blue"}

Coloured(d) == {c \in DOMAIN d : color_of_cell(d[c]) # "NoColor"}

\* the ring positions (0 to 5, clockwise) around z that hold a blue cell
BlueRing(d, z) == {n \in 0..5 : neighbors6(z)[n + 1] \in TrueBlues(d)}

\* the blue cells around z form one run of the ring
RingContiguous(d, z) ==
  \E s \in 0..5 :
    BlueRing(d, z) = {(s + j) % 6 : j \in 0..(Cardinality(BlueRing(d, z)) - 1)}

\* the step at which a line starting at l towards o passes through c,
\* or -1 when it does not
StepOnLine(l, o, c) ==
  IF \E i \in 0..32 : c = <<l[1] + i * direction(o)[1],
                            l[2] + i * direction(o)[2]>>
    THEN CHOOSE i \in 0..32 : c = <<l[1] + i * direction(o)[1],
                                    l[2] + i * direction(o)[2]>>
  ELSE -1

OnLine(d, l) == {c \in Coloured(d) : StepOnLine(l, d[l].o, c) >= 0}

\* no coloured cell of the line that is not blue lies between two blue ones
LineContiguous(d, l) ==
  \A x \in OnLine(d, l) \cap TrueBlues(d) :
    \A y \in OnLine(d, l) \cap TrueBlues(d) :
      \A c \in OnLine(d, l) \ TrueBlues(d) :
        ~(/\ StepOnLine(l, d[l].o, x) < StepOnLine(l, d[l].o, c)
          /\ StepOnLine(l, d[l].o, c) < StepOnLine(l, d[l].o, y))

ModifierHolds(d, c) ==
  CASE d[c].kind = "Zone6" /\ d[c].m = "Together" -> RingContiguous(d, c)
    [] d[c].kind = "Zone6" /\ d[c].m = "Separated" ->
         Cardinality(BlueRing(d, c)) >= 2 /\ ~RingContiguous(d, c)
    [] d[c].kind = "Line" /\ d[c].m = "Together" -> LineContiguous(d, c)
    [] d[c].kind = "Line" /\ d[c].m = "Separated" ->
         /\ Cardinality(OnLine(d, c) \cap TrueBlues(d)) >= 2
         /\ ~LineContiguous(d, c)
    [] OTHER -> TRUE

\* the true colouring of the puzzle satisfies every modifier of the puzzle
\* (the clue numbers are read from the true colouring, so they always hold)
Consistent(d) == \A c \in DOMAIN d : ModifierHolds(d, c)

\* the coloured cells that are not revealed in the puzzle
HiddenCells(d) == {c \in Coloured(d) : ~d[c].revealed}

AssertEqFailed ==
  outcome \in {"panic: assert_eq on two findings",
               "panic: assert_eq on the true colour"}

\* C3: on a puzzle whose true colouring satisfies its modifiers no assert_eq
\* of trivial_invariants, compound_invariants or global_invariants fails,
\* and every (cell, colour) a tier hands to solve is the true colour of the
\* cell.
C3_FindingsAreTrue ==
  Consistent(defn) =>
    /\ ~AssertEqFailed
    /\ \A c \in DOMAIN findings : findings[c] = color_of_cell(defn[c])

\* a puzzle with a Together or Separated ring and line that satisfies its
\* modifiers, after step 5.3 found cells that steps 5.1 and 5.2 did not
C3_Witness ==
  /\ Consistent(defn)
  /\ pc = "update"
  /\ difficulty.tier = "Global"
  /\ DOMAIN findings # {}
  /\ \E z \in DOMAIN defn : defn[z].kind = "Zone6" /\ defn[z].m # "Anywhere"
  /\ \E l \in DOMAIN defn : defn[l].kind = "Line" /\ defn[l].m # "Anywhere"

\* C4: when solve returns Solved(steps), every step is non-empty and holds
\* only cells that were unknown just before it, the steps are pairwise
\* disjoint, and together they are exactly the coloured cells the puzzle
\* does not reveal.
C4_StepsPartitionHidden ==
  outcome = "Solved" =>
    /\ \A i \in 1..Len(history) :
         /\ history[i].cells # {}
         /\ history[i].cells \subseteq pending[i]
    /\ \A i \in 1..Len(history) : \A j \in 1..Len(history) :
         i # j => history[i].cells \cap history[j].cells = {}
    /\ UNION {history[i].cells : i \in 1..Len(history)} = HiddenCells(defn)

\* a puzzle solved in two steps or more
C4_Witness == outcome = "Solved" /\ Len(history) >= 2

(***************************************************************************)
(* Claims on the constructors and the counts                               *)
(***************************************************************************)

\* C11: Multiverse::new with an empty scope and a non-empty list of layouts
\* fails, whatever the layouts are, a layout with no groups included.
C11_EmptyScopeRejected ==
  (op = "new" /\ arg.scope = {} /\ arg.layouts # <<>>) => ~out.ok

\* the entries j, j + 1, ... of the row of Pascal's triangle under `above`
RECURSIVE RowUnder(_, _)
RowUnder(above, j) ==
  IF j > Len(above) + 1 THEN <<>>
  ELSE <<(IF j = 1 THEN 0 ELSE above[j - 1])
           + (IF j = Len(above) + 1 THEN 0 ELSE above[j])>>
         \o RowUnder(above, j + 1)

\* row n of Pascal's triangle
RECURSIVE PascalRow(_)
PascalRow(n) == IF n = 0 THEN <<1>> ELSE RowUnder(PascalRow(n - 1), 1)

\* the binomial coefficient C(n, k)
Binom(n, k) == PascalRow(n)[k + 1]

\* some product result * (n - i) of n_choose_k is too large for the word
ProductOverflows(n, k) ==
  \E i \in 0..(IntMin({k, n - k}) - 1) : Binom(n, i) * (n - i) > WordMax

\* the product over the groups G of C(|G|, k_G)
RECURSIVE ExactCount(_, _)
ExactCount(lay, groups) ==
  IF groups = {} THEN 1
  ELSE LET g == CHOOSE g \in groups : TRUE IN
       Binom(Cardinality(g), lay.binomial_coefs[g])
         * ExactCount(lay, groups \ {g})

\* C12: n_choose_k(n, k) is C(n, k) unless one of its products overflows,
\* and then it is None; solution_count of a layout is None or the exact
\* product of the binomial coefficients of its groups, and it is that
\* product whenever no product overflows.
C12_CountsExactOrNone ==
  /\ op = "n_choose_k" =>
       out = IF ProductOverflows(arg.n, arg.k) THEN None
             ELSE Binom(arg.n, arg.k)
  /\ op = "solution_count" =>
       /\ out \in {None, ExactCount(arg.lay, Keys(arg.lay))}
       /\ (/\ \A g \in Keys(arg.lay) :
                ~ProductOverflows(Cardinality(g), arg.lay.binomial_coefs[g])
           /\ ExactCount(arg.lay, Keys(arg.lay)) <= WordMax)
            => out # None

\* the count of a layout overflowed in the product over its groups, while
\* the coefficient of each group was computed
C12_Witness ==
  /\ op = "solution_count"
  /\ out = None
  /\ Cardinality(Keys(arg.lay)) = 3
  /\ \A g \in Keys(arg.lay) :
       n_choose_k(Cardinality(g), arg.lay.binomial_coefs[g]) > 1

\* C13: solution_count_upper_bound is never below the number of colourings
\* a multiverse describes, and it is that number when the multiverse is
\* made by distribute_anywhere, distribute_together and distribute_in_ring
\* and merges of those; two zones sharing two cells, with one blue each,
\* merge to 18.
C13_UpperBound ==
  op = "upper_bound" =>
    /\ out.ok
    /\ found # None
    /\ found >= Cardinality(Solutions(out))
    /\ {left, right, third} \subseteq BuiltExact =>
         found = Cardinality(Solutions(out))
    /\ (/\ left = distribute_anywhere(neighbors6(<<0, 0>>), 1)
        /\ right = distribute_anywhere(neighbors6(<<2, -1>>), 1)
        /\ third = empty)
         => found = 18

\* the two zones of the example were merged
C13_Witness ==
  /\ op = "upper_bound"
  /\ left = distribute_anywhere(neighbors6(<<0, 0>>), 1)
  /\ right = distribute_anywhere(neighbors6(<<2, -1>>), 1)
  /\ third = empty
  /\ Cardinality(Solutions(out)) = 18

\* the colourings of the cells of v with k blues in consecutive positions
Consecutive(v, k) ==
  {{v[i] : i \in (i0 + 1)..(i0 + k)} : i0 \in 0..(Len(v) - k)}

\* the colourings of the cells of v with k blues
WithBlues(v, k) == {blues \in SUBSET SeqRange(v) : Cardinality(blues) = k}

\* C14: distribute_together on n >= 1 distinct cells and 0 <= k <= n makes
\* one layout when k = 0 or k = n and n - k + 1 layouts otherwise, each
\* with one solution; the colourings are those with k blues in consecutive
\* positions, each described by one layout only.
C14_TogetherIsConsecutive ==
  op = "together" =>
    LET n == Len(arg.scope_vec)
        k == arg.blue_count
    IN /\ out.ok
       /\ out.scope = SeqRange(arg.scope_vec)
       /\ Len(out.layouts) = IF k = 0 \/ k = n THEN 1 ELSE n - k + 1
       /\ \A i \in 1..Len(out.layouts) : solution_count(out.layouts[i]) = 1
       /\ Solutions(out) = Consecutive(arg.scope_vec, k)
       /\ Cardinality(Solutions(out)) = Len(out.layouts)

\* a line of five cells in an order that is not the one of Coords, with
\* two blues: four layouts
C14_Witness ==
  /\ op = "together"
  /\ Len(arg.scope_vec) = 5
  /\ arg.blue_count = 2
  /\ arg.scope_vec # CoordsSeq(SeqRange(arg.scope_vec))
  /\ Len(out.layouts) = 4

\* C15: for k >= 2 blues on n >= k + 1 cells the layouts of
\* distribute_separated describe, together, exactly the colourings with k
\* blues that are not in consecutive positions; the upper bound of the
\* solution count may be larger than their number: 4 for n = 4 and k = 2,
\* 10 for n = 5 and k = 3, and 1 for n = 3 and k = 2.
C15_SeparatedIsNotConsecutive ==
  (op = "separated" /\ arg.blue_count >= 2
     /\ Len(arg.scope_vec) >= arg.blue_count + 1) =>
    LET n == Len(arg.scope_vec)
        k == arg.blue_count
    IN /\ out.ok
       /\ out.scope = SeqRange(arg.scope_vec)
       /\ Solutions(out)
            = WithBlues(arg.scope_vec, k) \ Consecutive(arg.scope_vec, k)
       /\ found >= Cardinality(Solutions(out))
       /\ (n = 4 /\ k = 2) => found = 4
       /\ (n = 5 /\ k = 3) => found = 10
       /\ (n = 3 /\ k = 2) => found = 1

\* five cells with three blues: ten solutions counted for seven colourings
C15_Witness ==
  /\ op = "separated"
  /\ Len(arg.scope_vec) = 5
  /\ arg.blue_count = 3
  /\ found = 10
  /\ Cardinality(Solutions(out)) = 7

\* the ring positions (0 to 5) that are not gaps
NonGaps(scope_arr) == {i \in 0..5 : ~scope_arr[i + 1][2]}

\* the positions form one arc of the ring, over index 0 or not
IsArc(positions) ==
  \E start \in 0..5 :
    positions = {(start + d) % 6 : d \in 0..(Cardinality(positions) - 1)}

\* the cells at the positions
CellsAt(scope_arr, positions) == {scope_arr[i + 1][1] : i \in positions}

\* C16: when distribute_in_ring enumerates the subsets of k ring positions
\* (k >= 2, and k is not the number of cells of the ring), Together keeps
\* the subsets of cells that form one arc of the ring and Separated keeps
\* the other subsets of cells, one layout of one solution for each; on a
\* ring without gaps that is 6 layouts for Together (k in 2..5) and
\* C(6, k) - 6 for Separated (k in 2..4).
C16_RingArcs ==
  (op = "ring" /\ arg.blue_count >= 2
     /\ arg.blue_count # Cardinality(NonGaps(arg.scope_arr))) =>
    LET k == arg.blue_count
        subsets ==
          {p \in SUBSET NonGaps(arg.scope_arr) : Cardinality(p) = k}
        arcs == {p \in subsets : IsArc(p)}
    IN /\ Solutions(out) = {CellsAt(arg.scope_arr, p) : p \in arcs}
       /\ Solutions(found)
            = {CellsAt(arg.scope_arr, p) : p \in subsets \ arcs}
       /\ Len(out.layouts) = Cardinality(arcs)
       /\ Len(found.layouts) = Cardinality(subsets \ arcs)
       /\ \A mv \in {out, found} : \A i \in 1..Len(mv.layouts) :
            solution_count(mv.layouts[i]) = 1
       /\ arcs # {} => out.ok
       /\ (subsets \ arcs # {}) => found.ok
       /\ NonGaps(arg.scope_arr) = 0..5 =>
            /\ k \in 2..5 => Len(out.layouts) = 6
            /\ k \in 2..4 => Len(found.layouts) = Binom(6, k) - 6

\* a ring with one gap and three blues: an arc over index 0 is kept by
\* Together and other subsets by Separated
C16_Witness ==
  /\ op = "ring"
  /\ arg.blue_count = 3
  /\ Cardinality(NonGaps(arg.scope_arr)) = 5
  /\ CellsAt(arg.scope_arr, {5, 0, 1}) \in Solutions(out)
  /\ Len(found.layouts) >= 2

(***************************************************************************)
(* Claims on the loop of solve                                             *)
(***************************************************************************)

\* the visible constraints of cons in a state of Multiverse::state
VisibleIn(cons, st) ==
  {k \in DOMAIN cons.constraints_visible :
     state(cons.constraints_visible[k]) = st}

\* C17: step 3 of an iteration leaves only Running multiverses visible: the
\* Empty ones are moved to constraints_exhausted and the Running ones are
\* left as they are; with a Stuck one the solver panics and returns no
\* outcome.
C17_GcLeavesRunning ==
  [][pc = "loop" =>
       LET pre == refreshed(constraints, progress) IN
       IF VisibleIn(pre, "Stuck") # {}
         THEN pc' = "done" /\ outcome' = "panic in gc"
       ELSE /\ outcome' # "panic in gc"
            /\ DOMAIN constraints'.constraints_visible
                 = VisibleIn(pre, "Running")
            /\ \A k \in VisibleIn(pre, "Running") :
                 constraints'.constraints_visible[k]
                   = pre.constraints_visible[k]
            /\ constraints'.constraints_exhausted
                 = pre.constraints_exhausted \cup VisibleIn(pre, "Empty")
            /\ constraints'.constraints_hidden = pre.constraints_hidden
    ]_vars

\* in a later iteration some constraints were moved to the exhausted ones
\* and others are still visible
C17_Witness ==
  /\ pc = "trivial"
  /\ Len(history) >= 1
  /\ constraints.constraints_exhausted # {}
  /\ DOMAIN constraints.constraints_visible # {}
  /\ VisibleIn(constraints, "Running") = DOMAIN constraints.constraints_visible

\* the cells of the scopes of the visible constraints of K
ScopeOf(cons, K) == UNION {cons.constraints_visible[k].scope : k \in K}

\* the colourings that every visible constraint of K accepts
JointSolutions(cons, K) ==
  {blues \in SUBSET ScopeOf(cons, K) :
     \A k \in K :
       blues \cap cons.constraints_visible[k].scope
         \in Solutions(cons.constraints_visible[k])}

\* the cells of the constraints of K that have one colour in all the
\* colourings the constraints accept together
Forced(cons, K) ==
  {c \in ScopeOf(cons, K) :
     /\ JointSolutions(cons, K) # {}
     /\ \/ \A blues \in JointSolutions(cons, K) : c \in blues
        \/ \A blues \in JointSolutions(cons, K) : c \notin blues}

\* K cannot be cut in two parts with disjoint scopes
Connected(cons, K) ==
  \A A \in (SUBSET K) \ {{}, K} :
    ScopeOf(cons, A) \cap ScopeOf(cons, K \ A) # {}

\* no visible constraint has an invariant on its own
NoneAlone(cons) ==
  \A k \in DOMAIN cons.constraints_visible : Forced(cons, {k}) = {}

\* no connected group of local constraints has an invariant
NoneTogether(cons) ==
  \A K \in SUBSET local_keys(cons.constraints_visible) :
    (Cardinality(K) >= 2 /\ Connected(cons, K)) => Forced(cons, K) = {}

\* all the visible constraints together have no invariant
NoneAtAll(cons) == Forced(cons, DOMAIN cons.constraints_visible) = {}

\* C18: the tiers of an iteration escalate: the step is Local(1) when some
\* visible constraint has an invariant on its own, step 5.2 runs only when
\* step 5.1 found nothing, step 5.3 only when step 5.2 found nothing, and
\* Unsolvable is returned only when all the visible constraints together,
\* the global one included, have no invariant.
C18_TiersEscalate ==
  /\ pc = "update" =>
       /\ ~NoneAlone(constraints) <=> difficulty = Local(1)
       /\ (difficulty.tier = "Local" /\ difficulty.n >= 2) =>
            ~NoneTogether(constraints)
       /\ difficulty.tier = "Global" =>
            NoneTogether(constraints) /\ ~NoneAtAll(constraints)
  /\ pc = "compound" => NoneAlone(constraints)
  /\ pc = "global" => NoneAlone(constraints) /\ NoneTogether(constraints)
  /\ outcome = "Unsolvable" =>
       /\ NoneAlone(constraints)
       /\ NoneTogether(constraints)
       /\ NoneAtAll(constraints)

\* the three tiers ran, the second one on local constraints that share
\* cells, and none found an invariant
C18_Witness ==
  /\ outcome = "Unsolvable"
  /\ \E K \in SUBSET local_keys(constraints.constraints_visible) :
       Cardinality(K) >= 2 /\ Connected(constraints, K)
  /\ NoneAtAll(constraints)

\* the cells known to progress are the ones known at the start and the
\* cells of the steps of the history
ProgressIsHistory ==
  LET first == Progress_of_defn(defn)
      cells == UNION {history[i].cells : i \in 1..Len(history)}
  IN /\ visible_cells_of(progress) = visible_cells_of(first) \cup cells
     /\ progress.unknowns = first.unknowns \ cells

\* C19: when the timeout check fails in step 5.2 or in step 5.3 solve
\* returns Timeout at once: nothing of the tier is applied to progress and
\* no step is pushed for it.
C19_TimeoutCommitsNothing ==
  /\ [](outcome = "Timeout" => pc = "done" /\ ProgressIsHistory)
  /\ [][outcome' = "Timeout" =>
          /\ pc \in {"compound", "global"}
          /\ pc' = "done"
          /\ progress' = progress
          /\ history' = history
          /\ constraints' = constraints]_vars

\* the timeout of step 5.3, in an iteration that follows a step
C19_Witness ==
  /\ outcome = "Timeout"
  /\ Len(history) >= 1
  /\ difficulty.n >= 2

\* s is the beginning of t
IsPrefix(s, t) == Len(s) <= Len(t) /\ \A i \in 1..Len(s) : s[i] = t[i]

\* C20 as claimed: two runs of solve on the same puzzle end alike, with
\* the same outcome and the same steps: every run ends as the run in
\* which no timeout check fails does.
C20_SameOutcome ==
  pc = "done" => Ended(outcome, history) = solve(defn)

\* C20: two runs of solve on the same puzzle in which no timeout check
\* fails end alike, with the same outcome, steps, difficulties and cells;
\* a run that returns Timeout has pushed the first steps of those runs.
C20_SameOutcomeUnlessTimeout ==
  pc = "done" =>
    IF outcome = "Timeout" THEN IsPrefix(history, solve(defn).history)
    ELSE Ended(outcome, history) = solve(defn)

\* a run ended Unsolvable after a step of its own
C20_Witness ==
  /\ pc = "done"
  /\ outcome = "Unsolvable"
  /\ Len(history) >= 1
  /\ history[1].cells # {}

(***************************************************************************)
(* Claims on the search of step 5.2                                        *)
(***************************************************************************)

\* the connected sets of n local constraints of cons
ConnectedGroups(cons, n) ==
  {K \in SUBSET local_keys(cons.constraints_visible) :
     Cardinality(K) = n /\ Connected(cons, K)}

\* the cells forced by some connected set of n local constraints, with
\* their colour
ForcedAt(cons, n) ==
  LET cells == UNION {Forced(cons, K) : K \in ConnectedGroups(cons, n)}
      blue(c) ==
        \E K \in ConnectedGroups(cons, n) :
          c \in Forced(cons, K) /\ \A b \in JointSolutions(cons, K) : c \in b
  IN [c \in cells |-> IF blue(c) THEN "Blue" ELSE "Black"]

\* C21: in step 5.2 the groups of the phase of difficulty n (n >= 2) are the
\* connected sets of n visible constraints other than the global one, in
\* the graph whose edges are the pairs of constraints with a common cell;
\* each group carries the merge of its members; the global constraint is
\* in no group; the difficulty returned with invariants is the smallest n
\* at which a group has one, and the invariants are those of that phase.
C21_GroupsAreConnectedSets ==
  op = "compound_invariants" =>
    LET cons == arg.cons
        visible == cons.constraints_visible
        sizes == 2..(Cardinality(local_keys(visible)) + 1)
        first == {n \in sizes : DOMAIN ForcedAt(cons, n) # {}}
    IN /\ \A n \in sizes :
            LET groups == constraints_groups_at(visible, n) IN
            /\ DOMAIN groups = ConnectedGroups(cons, n)
            /\ \A K \in DOMAIN groups :
                 /\ UNIQUE_COORDS \notin K
                 /\ groups[K].ok
                 /\ groups[K].scope = ScopeOf(cons, K)
                 /\ Solutions(groups[K]) = JointSolutions(cons, K)
       /\ first # {} =>
            /\ out.difficulty = Local(IntMin(first))
            /\ out.found.invariants = ForcedAt(cons, IntMin(first))
       /\ first = {} => DOMAIN out.found.invariants = {}

\* four constraints that are not all connected to each other, where no
\* pair has an invariant and a group of three has one
C21_Witness ==
  /\ op = "compound_invariants"
  /\ Cardinality(local_keys(arg.cons.constraints_visible)) = 4
  /\ Cardinality(ConnectedGroups(arg.cons, 2)) \in 1..5
  /\ out.difficulty = Local(3)
  /\ DOMAIN out.found.invariants # {}

\* C22: the search of step 5.2 ends without the timeout: the groups of a
\* pass have one constraint more than those of the pass before, a group
\* with no neighbour outside it leaves no group behind, and with N visible
\* constraints other than the global one there are at most N passes, after
\* which invariants were found or no group is left and the result is empty.
C22_SearchEnds ==
  op = "compound_invariants" =>
    LET visible == arg.cons.constraints_visible
        N == Cardinality(local_keys(visible))
        at(n) == DOMAIN constraints_groups_at(visible, n)
        passes == IF N = 0 THEN 0 ELSE out.difficulty.n - 1
    IN /\ passes <= N
       /\ out.difficulty.tier = "Local"
       /\ \A n \in 1..N :
            /\ \A K \in at(n + 1) :
                 \E J \in at(n) : J \subseteq K /\ Cardinality(K \ J) = 1
            /\ \A J \in at(n) :
                 neighbor_contraints(J, connections_of(visible)) = {} =>
                   \A K \in at(n + 1) : ~(J \subseteq K)
       /\ at(N + 1) = {}
       /\ \/ DOMAIN out.found.invariants # {}
          \/ /\ out.found = NoFindings
             /\ N > 0 => at(out.difficulty.n) = {}

\* three constraints, one of them alone: its group runs out one pass before
\* the group of the two others, and the search ends with nothing
C22_Witness ==
  /\ op = "compound_invariants"
  /\ Cardinality(local_keys(arg.cons.constraints_visible)) = 3
  /\ ConnectedGroups(arg.cons, 2) # {}
  /\ ConnectedGroups(arg.cons, 3) = {}
  /\ out.difficulty = Local(3)
  /\ out.found = NoFindings

(***************************************************************************)
(* Claims on align and on invariants                                       *)
(***************************************************************************)

\* the colourings of the cells of a layout that the layout describes
LayoutSolutions(lay) ==
  {blues \in SUBSET GroupUnion(lay) : Satisfies(blues, lay)}

\* every colouring described by piece is described by lay: each group of
\* lay is cut into groups of piece whose counts add up to its count
RECURSIVE SumOver(_, _)
SumOver(bc, groups) ==
  IF groups = {} THEN 0
  ELSE LET g == CHOOSE g \in groups : TRUE IN
       bc[g] + SumOver(bc, groups \ {g})

Refines(piece, lay) ==
  \A g \in Keys(lay) :
    LET inside == {h \in Keys(piece) : h \subseteq g} IN
    /\ UNION inside = g
    /\ SumOver(piece.binomial_coefs, inside) = lay.binomial_coefs[g]

\* the sum of the exact numbers of colourings of the layouts
RECURSIVE ExactSum(_)
ExactSum(lays) ==
  IF lays = <<>> THEN 0
  ELSE ExactCount(Head(lays), Keys(Head(lays))) + ExactSum(Tail(lays))

\* va describes the colourings of a, each one once
SameSolutionsOnce(a, va) ==
  /\ AllOk(va)
  /\ va # <<>>
  /\ \A i \in 1..Len(va) : Refines(va[i], a)
  /\ \A i \in 1..Len(va) : \A j \in 1..Len(va) :
       i # j => Keys(va[i]) = Keys(va[j]) /\ va[i] # va[j]
  /\ ExactSum(va) = ExactCount(a, Keys(a))
  /\ Cardinality(GroupUnion(a)) <= 4 =>
       /\ UNION {LayoutSolutions(va[i]) : i \in 1..Len(va)}
            = LayoutSolutions(a)
       /\ \A i \in 1..Len(va) : \A j \in 1..Len(va) :
            i # j => LayoutSolutions(va[i]) \cap LayoutSolutions(va[j]) = {}

ForcedCells(mv) ==
  LET sols == Solutions(mv)
      blue == {c \in mv.scope : \A b \in sols : c \in b}
      black == {c \in mv.scope : \A b \in sols : c \notin b}
  IN [c \in blue \cup black |-> IF c \in blue THEN "Blue" ELSE "Black"]

\* C24: the invariants of a Running multiverse are all the cells of its
\* scope that have one colour in every colouring its layouts describe,
\* each with that colour, and they stay the same when a cell is split out
\* of the groups of the layouts.
C24_InvariantsComplete ==
  (op = "invariants" /\ state(left) = "Running") =>
    /\ Solutions(left) # {}
    /\ found = ForcedCells(left)
    /\ \A c \in left.scope :
         invariants(Multiverse_new(left.scope, split(left.layouts, {c})))
           = found

\* a merged multiverse of several layouts whose groups differ from layout
\* to layout, with a forced cell that is in a group of several cells
C24_Witness ==
  /\ op = "invariants"
  /\ nops >= 1
  /\ state(left) = "Running"
  /\ Len(left.layouts) >= 2
  /\ \E i \in 1..Len(left.layouts) : Keys(left.layouts[i]) # Keys(left.layouts[1])
  /\ \E c \in DOMAIN found : \E i \in 1..Len(left.layouts) :
       \E g \in Keys(left.layouts[i]) : c \in g /\ Cardinality(g) >= 2
  /\ DOMAIN found # left.scope

(***************************************************************************)
(* Claims on the steps 1 to 4 of the loop of solve                         *)
(***************************************************************************)

\* C25: at step 4 of an iteration, after reveal, narrow and gc, no cell is
\* unknown if and only if no constraint is hidden and none is visible:
\* neither assertion of step 4 fails on a puzzle whose true colouring
\* satisfies its clues.
C25_Step4AssertsHold ==
  [][(pc = "loop" /\ Consistent(defn)) =>
       /\ outcome' # "panic in step 4"
       /\ outcome' # "panic in gc" =>
            (Progress_is_solved(progress)
               <=> Constraints_is_solved(constraints'))
    ]_vars

\* a puzzle that satisfies its clues was solved in steps, and a zone that
\* it does not reveal was revealed by a step and then exhausted
C25_Witness ==
  /\ Consistent(defn)
  /\ outcome = "Solved"
  /\ Len(history) >= 1
  /\ Constraints_is_solved(constraints)
  /\ \E k \in constraints.constraints_exhausted :
       /\ k \in DOMAIN hidden_of_defn(defn)
       /\ ~defn[k].revealed

\* the keys of the constraints of a puzzle: its zones, its lines and the
\* key of the global constraint
ZoneKeys(d) == {c \in DOMAIN d : d[c].kind \in {"Zone6", "Zone18"}}

LineKeys(d) == {c \in DOMAIN d : d[c].kind = "Line"}

\* every key is in one of the three collections, and in one only
InOneCollection(cons, d) ==
  LET H == DOMAIN cons.constraints_hidden
      V == DOMAIN cons.constraints_visible
      X == cons.constraints_exhausted
  IN /\ H \cup V \cup X = ZoneKeys(d) \cup LineKeys(d) \cup {UNIQUE_COORDS}
     /\ H \cap V = {} /\ H \cap X = {} /\ V \cap X = {}
     /\ H \cap (LineKeys(d) \cup {UNIQUE_COORDS}) = {}

\* C26: during a run of solve every key of a constraint (a zone, a line,
\* the global constraint) is in exactly one of constraints_hidden,
\* constraints_visible and constraints_exhausted; a key leaves
\* constraints_hidden only for constraints_visible, and only when its cell
\* is blue or black in progress; it leaves constraints_visible only for
\* constraints_exhausted, and only when its multiverse is Empty; it never
\* goes back; the lines and the global constraint are never hidden.
C26_KeysMoveForward ==
  /\ [](pc # "start" => InOneCollection(constraints, defn))
  /\ [][pc # "start" =>
          LET H == DOMAIN constraints.constraints_hidden
              V == DOMAIN constraints.constraints_visible
              X == constraints.constraints_exhausted
              H2 == DOMAIN constraints'.constraints_hidden
              V2 == DOMAIN constraints'.constraints_visible
              X2 == constraints'.constraints_exhausted
              narrowed == refreshed(constraints, progress).constraints_visible
          IN /\ H2 \subseteq H
             /\ V2 \subseteq V \cup H
             /\ X \subseteq X2
             /\ H \ H2 = IF pc = "loop"
                          THEN H \cap visible_cells_of(progress) ELSE {}
             /\ \A k \in X2 \ X : pc = "loop" /\ state(narrowed[k]) = "Empty"
       ]_vars

\* after a step the line is exhausted, a zone that was hidden at the start
\* is visible and another one is still hidden
C26_Witness ==
  /\ pc = "trivial"
  /\ Len(history) >= 1
  /\ \E l \in LineKeys(defn) :
       /\ state(visible_of_defn(defn)[l]) = "Running"
       /\ l \in constraints.constraints_exhausted
  /\ \E k \in DOMAIN constraints.constraints_visible :
       k \in ZoneKeys(defn) /\ ~defn[k].revealed
  /\ DOMAIN constraints.constraints_hidden # {}

\* C27: after step 2 of an iteration the scope of every visible multiverse
\* holds unknown cells only: each cell that is blue or black in progress
\* has been learned out of every visible constraint, the ones revealed in
\* the same iteration included, and no call of learn panics; so the cells a
\* tier finds are unknown ones.
C27_ScopesAreUnknown ==
  /\ [][pc = "loop" =>
          LET narrowed == refreshed(constraints, progress) IN
          /\ \A k \in DOMAIN narrowed.constraints_visible :
               /\ narrowed.constraints_visible[k].ok
               /\ narrowed.constraints_visible[k].scope
                    \subseteq progress.unknowns
          /\ \A k \in DOMAIN constraints'.constraints_visible :
               constraints'.constraints_visible[k].scope
                 \subseteq progress.unknowns
       ]_vars
  /\ [](pc \in {"trivial", "compound", "global", "update"} =>
          /\ \A k \in DOMAIN constraints.constraints_visible :
               constraints.constraints_visible[k].scope
                 \subseteq progress.unknowns
          /\ pc = "update" => DOMAIN findings \subseteq progress.unknowns)

\* a zone hidden at the start was revealed by a step and narrowed in the
\* same iteration: it is visible with a scope smaller than at the start
C27_Witness ==
  /\ pc = "trivial"
  /\ Len(history) >= 1
  /\ \E k \in DOMAIN constraints.constraints_visible :
       /\ k \in DOMAIN hidden_of_defn(defn)
       /\ ~defn[k].revealed
       /\ constraints.constraints_visible[k].scope
            # hidden_of_defn(defn)[k].scope
       /\ constraints.constraints_visible[k].scope # {}

\* the true colouring of the puzzle is not one of the colourings of mv
Unsatisfied(d, mv) == (TrueBlues(d) \cap mv.scope) \notin Solutions(mv)

\* C28: learn(M, c, colour) is the Empty multiverse whenever the scope of M
\* is {c}, whatever the layouts of M and the colour, also when M is Stuck
\* or when every layout of M gives c the other colour; so a visible
\* constraint whose whole scope is blue or black in progress comes out of
\* step 2 Empty, also when the colours contradict it, and step 3 moves it
\* to constraints_exhausted instead of panicking on it.
C28_LastCellGivesEmpty ==
  /\ [](\A mv \in Built : \A c \in mv.scope : \A color \in Colors :
          mv.scope = {c} => learn(mv, c, color) = empty)
  /\ [][pc = "loop" =>
          LET cells == visible_cells_of(progress)
              visible == reveal(constraints, cells).constraints_visible
          IN \A k \in DOMAIN visible :
               (visible[k].scope # {} /\ visible[k].scope \subseteq cells) =>
                 /\ narrow_one(visible[k], cells, progress) = empty
                 /\ outcome' # "panic in gc" =>
                      k \in constraints'.constraints_exhausted
       ]_vars

\* a line whose cells are all revealed and whose clue the true colouring
\* contradicts was exhausted in the first iteration, and solve went on
C28_Witness ==
  /\ pc = "trivial"
  /\ Len(history) = 0
  /\ \E l \in LineKeys(defn) \cap constraints.constraints_exhausted :
       /\ state(visible_of_defn(defn)[l]) = "Running"
       /\ Cardinality(visible_of_defn(defn)[l].scope) >= 2
       /\ Unsatisfied(defn, visible_of_defn(defn)[l])

(***************************************************************************)
(* Claims on the termination of solve                                      *)
(***************************************************************************)

\* the place of a state in a run of solve: the cells still unknown, then
\* the statements still ahead in the iteration
StepsAhead ==
  LET rank == CASE pc = "start" -> 6 [] pc = "loop" -> 5
                [] pc = "trivial" -> 4 [] pc = "compound" -> 3
                [] pc = "global" -> 2 [] pc = "update" -> 1
                [] OTHER -> 0
      still == IF pc = "start" THEN Progress_of_defn(defn).unknowns
              ELSE progress.unknowns
  IN 6 * Cardinality(still) + rank

\* C29: solve ends: no step adds a cell to progress.unknowns, each
\* iteration that reaches history.push takes at least one cell out of it,
\* so the number of steps pushed is at most the number of cells unknown at
\* the start; every step brings the return nearer, and a run that has not
\* returned (or panicked) is at a statement of the loop, which runs
\* whatever the state is.
C29_SolveEnds ==
  /\ [](Len(history) <= Cardinality(Progress_of_defn(defn).unknowns))
  /\ [](pc \in {"start", "loop", "trivial", "compound", "global", "update",
               "done"})
  /\ [][/\ StepsAhead' < StepsAhead
        /\ pc # "start" =>
             /\ progress'.unknowns \subseteq progress.unknowns
             /\ pc = "update" => progress'.unknowns # progress.unknowns
             /\ Len(history') > Len(history) => pc = "update"
       ]_vars

\* a puzzle with three unknown cells or more, solved one cell at a time
C29_Witness ==
  /\ outcome = "Solved"
  /\ Len(history) >= 3
  /\ Len(history) = Cardinality(Progress_of_defn(defn).unknowns)

(***************************************************************************)
(* Claims on the assertions of multiverse.rs                               *)
(***************************************************************************)

\* the layouts of a list passed the assertions of Layout::new
AllAsserted(lays) ==
  \A i \in 1..Len(lays) :
    lays[i].ok /\ LayoutAsserts(lays[i].binomial_coefs)

\* align(l, r) of every layout l of a and r of b passes its assertion and
\* gives two lists with a layout or more, all of them well built
AlignsWell(a, b) ==
  \A i \in 1..Len(a.layouts) : \A j \in 1..Len(b.layouts) :
    LET al == align(a.layouts[i], b.layouts[j]) IN
    /\ al.ok
    /\ are_aligned(al.left, al.right)
    /\ al.left # <<>> /\ al.right # <<>>
    /\ AllAsserted(al.left) /\ AllAsserted(al.right)

BothRunning(a, b) == a.ok /\ b.ok /\ state(a) = "Running" /\ state(b) = "Running"

\* C30: no builder, merge or learn (of a cell of the scope) trips an
\* assertion: split gives a layout or more for each layout it is given,
\* align gives two aligned lists, and every layout that split, merge and
\* learn build has non-empty pairwise disjoint groups with a count that is
\* at most the size of the group.
C30_NoAssertionFails ==
  /\ \A mv \in {left, right, third, out} : mv.ok /\ AllAsserted(mv.layouts)
  /\ (op = "learn" /\ left.scope # {arg.coords}) =>
       /\ \A i \in 1..Len(left.layouts) :
            /\ split_one(left.layouts[i], {arg.coords}) # <<>>
            /\ AllAsserted(split_one(left.layouts[i], {arg.coords}))
       /\ Len(split(left.layouts, {arg.coords})) >= Len(left.layouts)
  /\ (op \in {"merge", "merge3"} /\ BothRunning(left, right)) =>
       AlignsWell(left, right)
  /\ (op = "merge3" /\ BothRunning(Multiverse_merge(left, right), third)) =>
       AlignsWell(Multiverse_merge(left, right), third)

\* a cell is learned out of a multiverse that came out of merge or learn,
\* and split cuts one of its layouts in two or more
C30_Witness ==
  /\ op = "learn"
  /\ nops >= 1
  /\ state(out) = "Running"
  /\ \E i \in 1..Len(left.layouts) :
       Len(split_one(left.layouts[i], {arg.coords})) >= 2

====
